---- MODULE Spec2Model ----
(***************************************************************************)
(* Model of the filter-expression compiler of the API query builder        *)
(* (src/src/utils/filterEncoder.js).                                        *)
(*                                                                         *)
(* JavaScript strings are sequences of one-character tokens, so that       *)
(* split, trim, replace, toLowerCase, parseInt, parseFloat, JSON.stringify *)
(* and encodeURIComponent are computed character by character.  The token  *)
(* "SOH" stands for the control character U+0001.  JavaScript values are    *)
(* tagged records.                                                          *)
(***************************************************************************)
EXTENDS Integers, Sequences, FiniteSets, TLC

VARIABLES
    conditions,        \* argument `conditions` of buildAndEncodeFilter
    filterLogic,       \* argument `logic`
    pc,                \* "input": not yet called; after the call, its outcome
    validConditions,   \* local of buildFilterString (line 41), Undefined before it is set
    filterConditions,  \* local of buildFilterString (line 76), Undefined before it is set
    rawFilter,         \* result.raw
    encodedFilter,     \* result.encoded
    attributes,        \* prop `attributes` of FilterBuilder: the loaded attributes
    fieldName,         \* argument of getOperatorsForAttribute
    attributeType,     \* argument of getOperatorsForType
    operators,         \* the operators the lookup returned
    apiKey,            \* App state apiKey: the key as entered
    cleanApiKey,       \* what sanitizeApiKey returned
    requests,          \* the requests handed to fetch: endpoint and Authorization header
    fetcher,           \* the module './utils/attributeFetcher' resolves to
    sourceOutcome,     \* what each attribute source does when asked
    fetchResult,       \* how fetchAllAttributes settled, Undefined before
    attributesLoaded,  \* App state attributesLoaded
    attributeError,    \* App state attributeError: Null, or the banner's message
    endpoint,          \* the path a paginated listing asks
    remoteCount,       \* the number of items the remote holds
    pageResponse,      \* what the remote answers to the request of each page
    page,              \* local `page` of the listing
    hasMore,           \* local `hasMore` of the listing
    allItems,          \* local allAttributes / allLists, as runs of item numbers
    pageRequests,      \* the page requests sent, in order
    testOutcome,       \* what fetch did for the test query
    testResult,        \* App state testResult
    baseUrl,           \* App state baseUrl
    isLoadingAttributes, \* App state isLoadingAttributes
    isTestingQuery,    \* App state isTestingQuery
    alert,             \* the messages the last step showed with alert(), Null if none
    loadsInFlight,     \* calls of handleLoadAttributes awaiting fetchAllAttributes
    testsInFlight,     \* calls of handleTestQuery awaiting testFilterQuery
    testsIssued,       \* for each test request sent: attributesLoaded and the filter then
    now                \* what Date.now() returns: the clock of the browser, in ticks

compilerVars == <<conditions, filterLogic, validConditions, filterConditions,
                  rawFilter, encodedFilter>>
operatorVars == <<attributes, fieldName, attributeType, operators>>
appVars == <<apiKey, cleanApiKey, requests, fetcher, sourceOutcome, fetchResult,
             attributesLoaded, attributeError>>
pageVars == <<endpoint, remoteCount, pageResponse, page, hasMore, allItems, pageRequests>>
sessionVars == <<testOutcome, testResult, baseUrl, isLoadingAttributes, isTestingQuery, alert,
                 loadsInFlight, testsInFlight, testsIssued>>
otherVars == <<pageVars, sessionVars, now>>
vars == <<pc, compilerVars, operatorVars, appVars, otherVars>>

----------------------------------------------------------------------------
\* JavaScript values

Undefined == [t |-> "undefined"]
Null == [t |-> "null"]
NaN == [t |-> "NaN"]
Str(s) == [t |-> "string", s |-> s]
Bool(b) == [t |-> "boolean", b |-> b]
\* a finite number: sign, integer part, fraction digits without trailing zeros
Num(neg, int, frac) == [t |-> "number", neg |-> neg, int |-> int, frac |-> frac]
Int_(n) == Num(FALSE, n, <<>>)
Arr(a) == [t |-> "array", a |-> a]
\* an object literal with one computed key: { [k]: v }
Obj(k, v) == [t |-> "object", k |-> k, v |-> v]

IsStr(v) == v.t = "string"
IsObj(v) == v.t = "object"
IsArr(v) == v.t = "array"

\* ToBoolean: what `!x`, `x && y`, `x || y` and `if (x)` test
Truthy(v) ==
    CASE v.t = "undefined" -> FALSE
      [] v.t = "null" -> FALSE
      [] v.t = "NaN" -> FALSE
      [] v.t = "string" -> v.s # <<>>
      [] v.t = "boolean" -> v.b
      [] v.t = "number" -> v.int # 0 \/ v.frac # <<>>
      [] OTHER -> TRUE

\* `v !== undefined && v !== ''`
NotUndefinedNorEmpty(v) == v.t # "undefined" /\ ~(v.t = "string" /\ v.s = <<>>)

----------------------------------------------------------------------------
\* Characters

Digits == <<"0", "1", "2", "3", "4", "5", "6", "7", "8", "9">>
UpperChars == <<"A", "B", "C", "D", "E", "F", "G", "H", "I", "J", "K", "L", "M",
                "N", "O", "P", "Q", "R", "S", "T", "U", "V", "W", "X", "Y", "Z">>
LowerChars == <<"a", "b", "c", "d", "e", "f", "g", "h", "i", "j", "k", "l", "m",
                "n", "o", "p", "q", "r", "s", "t", "u", "v", "w", "x", "y", "z">>

IsDigit(c) == \E i \in 1..Len(Digits) : Digits[i] = c
DigitVal(c) == (CHOOSE i \in 1..Len(Digits) : Digits[i] = c) - 1
\* the white space String.prototype.trim and parseInt strip
IsWhiteSpace(c) == c \in {" ", "\t", "\n", "\r", "U+00A0"}

LowerChar(c) ==
    IF \E i \in 1..Len(UpperChars) : UpperChars[i] = c
    THEN LowerChars[CHOOSE i \in 1..Len(UpperChars) : UpperChars[i] = c]
    ELSE c

\* String.prototype.toLowerCase
ToLowerCase(s) == [i \in 1..Len(s) |-> LowerChar(s[i])]

RECURSIVE ConcatRange(_, _, _)
\* ss[lo] \o ... \o ss[hi]
ConcatRange(ss, lo, hi) ==
    IF lo > hi THEN <<>>
    ELSE IF lo = hi THEN ss[lo]
    ELSE LET mid == (lo + hi) \div 2
         IN ConcatRange(ss, lo, mid) \o ConcatRange(ss, mid + 1, hi)

\* the concatenation of a sequence of strings
Concat(ss) == ConcatRange(ss, 1, Len(ss))

RECURSIVE SplitFrom(_, _, _)
\* the parts of s after a part that has collected `cur` so far
SplitFrom(s, sep, cur) ==
    IF s = <<>> THEN <<cur>>
    ELSE IF Head(s) = sep THEN <<cur>> \o SplitFrom(Tail(s), sep, <<>>)
    ELSE SplitFrom(Tail(s), sep, Append(cur, Head(s)))

\* String.prototype.split with a one-character separator
Split(s, sep) == SplitFrom(s, sep, <<>>)

RECURSIVE TrimStart(_)
TrimStart(s) ==
    IF s # <<>> /\ IsWhiteSpace(Head(s)) THEN TrimStart(Tail(s)) ELSE s

RECURSIVE TrimEnd(_)
TrimEnd(s) ==
    IF s # <<>> /\ IsWhiteSpace(s[Len(s)]) THEN TrimEnd(SubSeq(s, 1, Len(s) - 1)) ELSE s

\* String.prototype.trim
Trim(s) == TrimEnd(TrimStart(s))

\* field.replace(/\./g, '\u0001')
ReplaceDots(s) == [i \in 1..Len(s) |-> IF s[i] = "." THEN "SOH" ELSE s[i]]

RECURSIVE DigitPrefix(_)
\* the longest prefix of s made of decimal digits
DigitPrefix(s) ==
    IF s # <<>> /\ IsDigit(Head(s)) THEN <<Head(s)>> \o DigitPrefix(Tail(s)) ELSE <<>>

RECURSIVE DigitsValue(_)
DigitsValue(d) ==
    IF d = <<>> THEN 0 ELSE 10 * DigitsValue(SubSeq(d, 1, Len(d) - 1)) + DigitVal(d[Len(d)])

RECURSIVE StripTrailingZeros(_)
StripTrailingZeros(d) ==
    IF d # <<>> /\ d[Len(d)] = "0" THEN StripTrailingZeros(SubSeq(d, 1, Len(d) - 1)) ELSE d

HasSign(s) == s # <<>> /\ Head(s) \in {"-", "+"}

\* parseInt(s, 10): leading white space, a sign, then the longest digit prefix
ParseInt(str) ==
    LET s == TrimStart(str)
        body == IF HasSign(s) THEN Tail(s) ELSE s
        d == DigitPrefix(body)
    IN IF d = <<>> THEN NaN
       ELSE Num(HasSign(s) /\ Head(s) = "-", DigitsValue(d), <<>>)

\* parseFloat(s): leading white space, a sign, then the longest prefix that is a
\* decimal literal (digits, optionally a point and digits).  Exponents and
\* "Infinity" are not written with the characters of the inputs modelled here.
ParseFloat(str) ==
    LET s == TrimStart(str)
        body == IF HasSign(s) THEN Tail(s) ELSE s
        d1 == DigitPrefix(body)
        rest == SubSeq(body, Len(d1) + 1, Len(body))
        d2 == IF rest # <<>> /\ Head(rest) = "." THEN DigitPrefix(Tail(rest)) ELSE <<>>
    IN IF d1 = <<>> /\ d2 = <<>> THEN NaN
       ELSE Num(HasSign(s) /\ Head(s) = "-", DigitsValue(d1), StripTrailingZeros(d2))

RECURSIVE NatToString(_)
NatToString(n) ==
    IF n < 10 THEN <<Digits[n + 1]>> ELSE NatToString(n \div 10) \o <<Digits[(n % 10) + 1]>>

\* Number.prototype.toString for the finite numbers above (-0 prints as 0)
NumberToString(v) ==
    (IF v.neg /\ (v.int # 0 \/ v.frac # <<>>) THEN <<"-">> ELSE <<>>)
        \o NatToString(v.int)
        \o (IF v.frac = <<>> THEN <<>> ELSE <<".">> \o v.frac)

\* ToPropertyKey: the key a computed property name { [v]: ... } becomes
ToPropertyKey(v) ==
    CASE v.t = "string" -> v.s
      [] v.t = "undefined" -> <<"u", "n", "d", "e", "f", "i", "n", "e", "d">>
      [] v.t = "null" -> <<"n", "u", "l", "l">>
      [] v.t = "boolean" -> IF v.b THEN <<"t", "r", "u", "e">> ELSE <<"f", "a", "l", "s", "e">>
      [] v.t = "number" -> NumberToString(v)

----------------------------------------------------------------------------
\* JSON.stringify

\* the escape JSON.stringify writes for one character of a string
JsonEscapeChar(c) ==
    CASE c = "\"" -> <<"\\", "\"">>
      [] c = "\\" -> <<"\\", "\\">>
      [] c = "\t" -> <<"\\", "t">>
      [] c = "\n" -> <<"\\", "n">>
      [] c = "\r" -> <<"\\", "r">>
      [] c = "SOH" -> <<"\\", "u", "0", "0", "0", "1">>
      [] OTHER -> <<c>>

JsonQuote(s) == <<"\"">> \o Concat([i \in 1..Len(s) |-> JsonEscapeChar(s[i])]) \o <<"\"">>

RECURSIVE JoinWith(_, _)
\* Array.prototype.join
JoinWith(ss, sep) ==
    IF ss = <<>> THEN <<>>
    ELSE IF Len(ss) = 1 THEN ss[1]
    ELSE ss[1] \o sep \o JoinWith(Tail(ss), sep)

RECURSIVE JSONStringify(_)
\* JSON.stringify(v) for a value that is not undefined at the top level; a
\* property whose value is undefined is omitted, an undefined array element is null
JSONStringify(v) ==
    CASE v.t = "string" -> JsonQuote(v.s)
      [] v.t = "number" -> NumberToString(v)
      [] v.t = "boolean" -> IF v.b THEN <<"t", "r", "u", "e">> ELSE <<"f", "a", "l", "s", "e">>
      [] v.t = "array" ->
            <<"[">> \o JoinWith([i \in 1..Len(v.a) |-> JSONStringify(v.a[i])], <<",">>) \o <<"]">>
      [] v.t = "object" ->
            IF v.v.t = "undefined" THEN <<"{", "}">>
            ELSE <<"{">> \o JsonQuote(v.k) \o <<":">> \o JSONStringify(v.v) \o <<"}">>
      [] OTHER -> <<"n", "u", "l", "l">>

----------------------------------------------------------------------------
\* encodeURIComponent

\* the printable ASCII characters, code 32 to 126, in code order (the token
\* "BACKTICK" stands for the character of code 96)
Printable == <<" ", "!", "\"", "#", "$", "%", "&", "'", "(", ")", "*", "+", ",", "-", ".", "/",
               "0", "1", "2", "3", "4", "5", "6", "7", "8", "9", ":", ";", "<", "=", ">", "?",
               "@", "A", "B", "C", "D", "E", "F", "G", "H", "I", "J", "K", "L", "M", "N", "O",
               "P", "Q", "R", "S", "T", "U", "V", "W", "X", "Y", "Z", "[", "\\", "]", "^", "_",
               "BACKTICK", "a", "b", "c", "d", "e", "f", "g", "h", "i", "j", "k", "l", "m", "n", "o",
               "p", "q", "r", "s", "t", "u", "v", "w", "x", "y", "z", "{", "|", "}", "~">>
HexDigits == <<"0", "1", "2", "3", "4", "5", "6", "7", "8", "9", "A", "B", "C", "D", "E", "F">>

\* the code point of a character; the token "U+00E9" stands for e with acute
CharCode(c) ==
    CASE c = "SOH" -> 1
      [] c = "U+00E9" -> 233
      [] c = "U+00A0" -> 160
      [] c = "\t" -> 9
      [] c = "\n" -> 10
      [] c = "\r" -> 13
      [] OTHER -> 31 + (CHOOSE i \in 1..Len(Printable) : Printable[i] = c)

\* the characters encodeURIComponent leaves alone: A-Z a-z 0-9 - _ . ! ~ * ' ( )
IsUnreserved(c) ==
    \/ IsDigit(c)
    \/ \E i \in 1..Len(UpperChars) : UpperChars[i] = c \/ LowerChars[i] = c
    \/ c \in {"-", "_", ".", "!", "~", "*", "'", "(", ")"}

\* the UTF-8 bytes of a code point below U+0800
Utf8Bytes(code) ==
    IF code < 128 THEN <<code>> ELSE <<192 + (code \div 64), 128 + (code % 64)>>

\* %XX of one byte
PercentByte(b) == <<"%", HexDigits[(b \div 16) + 1], HexDigits[(b % 16) + 1]>>

\* the encoding as it would be with '%' left alone
PercentEncodeChar_KeepPercent(c) ==
    IF IsUnreserved(c) \/ c = "%" THEN <<c>>
    ELSE LET bytes == Utf8Bytes(CharCode(c))
         IN Concat([i \in 1..Len(bytes) |-> PercentByte(bytes[i])])

\* what encodeURIComponent writes for one character
PercentEncodeChar(c) ==
    IF IsUnreserved(c) THEN <<c>>
    ELSE LET bytes == Utf8Bytes(CharCode(c))
         IN Concat([i \in 1..Len(bytes) |-> PercentByte(bytes[i])])

EncodeURIComponent(s) == Concat([i \in 1..Len(s) |-> PercentEncodeChar(s[i])])

----------------------------------------------------------------------------
\* filterEncoder.js

OP_EQ == <<"#", "e", "q">>
OP_NE == <<"#", "n", "e">>
OP_GT == <<"#", "g", "t">>
OP_CONTAINS == <<"#", "c", "o", "n", "t", "a", "i", "n", "s">>
OP_IN == <<"#", "i", "n">>
OP_NOT_IN == <<"#", "n", "o", "t", "I", "n">>
OP_EXISTS == <<"#", "e", "x", "i", "s", "t", "s">>
OP_NOT_EXIST == <<"#", "n", "o", "t", "E", "x", "i", "s", "t">>
OP_AND == <<"#", "a", "n", "d">>
OP_OR == <<"#", "o", "r">>
MODE_ANY == <<"#", "a", "n", "y">>
MODE_ALL == <<"#", "a", "l", "l">>
LOGIC_AND == <<"a", "n", "d">>
LOGIC_OR == <<"o", "r">>
TYPE_STRING == <<"s", "t", "r", "i", "n", "g">>
TYPE_INTEGER == <<"i", "n", "t", "e", "g", "e", "r">>
TYPE_DECIMAL == <<"d", "e", "c", "i", "m", "a", "l">>
TYPE_NUMBER == <<"n", "u", "m", "b", "e", "r">>
TYPE_BOOLEAN == <<"b", "o", "o", "l", "e", "a", "n">>
TYPE_ARRAY == <<"a", "r", "r", "a", "y">>
TYPE_LIST == <<"l", "i", "s", "t">>

RECURSIVE NestFrom(_, _, _)
\* the loop of buildNestedObject: for (i = parts.length - 1; i >= 0; i--)
NestFrom(parts, i, result) ==
    IF i < 1 THEN result ELSE NestFrom(parts, i - 1, Obj(parts[i], result))

\* buildNestedObject as it would be without the split of the path
buildNestedObject_NoSplit(path, value) == Obj(path, value)

\* buildNestedObject(path, value), path a string
buildNestedObject(path, value) ==
    LET parts == Split(path, ".")
    IN IF Len(parts) = 1 THEN Obj(path, value)
       ELSE NestFrom(parts, Len(parts), value)

\* the predicate given to some/filter over listConditions
IsValidListCondition(lc) ==
    Truthy(lc.field) /\ Truthy(lc.operator) /\ NotUndefinedNorEmpty(lc.value)

\* Step 1 as it would be without the test of the value
IsValidCondition_NoValueCheck(c) ==
    IF ~Truthy(c.field) THEN FALSE
    ELSE IF c.fieldType = Str(TYPE_LIST) \/ Truthy(c.isList)
    THEN IF ~Truthy(c.listConditions) \/ Len(c.listConditions.a) = 0 THEN FALSE
         ELSE \E i \in 1..Len(c.listConditions.a) : IsValidListCondition(c.listConditions.a[i])
    ELSE Truthy(c.operator)

\* Step 1 as it would be with the value tested for truthiness (`!c.value`)
IsValidCondition_TruthyValue(c) ==
    IF ~Truthy(c.field) THEN FALSE
    ELSE IF c.fieldType = Str(TYPE_LIST) \/ Truthy(c.isList)
    THEN IF ~Truthy(c.listConditions) \/ Len(c.listConditions.a) = 0 THEN FALSE
         ELSE \E i \in 1..Len(c.listConditions.a) : IsValidListCondition(c.listConditions.a[i])
    ELSE IF ~Truthy(c.operator) THEN FALSE
    ELSE IF c.operator = Str(OP_EXISTS) \/ c.operator = Str(OP_NOT_EXIST) THEN TRUE
    ELSE Truthy(c.value)

\* Step 1 as it would be without the exception for #exists and #notExist
IsValidCondition_NoExistsException(c) ==
    IF ~Truthy(c.field) THEN FALSE
    ELSE IF c.fieldType = Str(TYPE_LIST) \/ Truthy(c.isList)
    THEN IF ~Truthy(c.listConditions) \/ Len(c.listConditions.a) = 0 THEN FALSE
         ELSE \E i \in 1..Len(c.listConditions.a) : IsValidListCondition(c.listConditions.a[i])
    ELSE IF ~Truthy(c.operator) THEN FALSE
    ELSE NotUndefinedNorEmpty(c.value)

\* the predicate of conditions.filter (Step 1)
IsValidCondition(c) ==
    IF ~Truthy(c.field) THEN FALSE
    ELSE IF c.fieldType = Str(TYPE_LIST) \/ Truthy(c.isList)
    THEN IF ~Truthy(c.listConditions) \/ Len(c.listConditions.a) = 0 THEN FALSE
         ELSE \E i \in 1..Len(c.listConditions.a) : IsValidListCondition(c.listConditions.a[i])
    ELSE IF ~Truthy(c.operator) THEN FALSE
    ELSE IF c.operator = Str(OP_EXISTS) \/ c.operator = Str(OP_NOT_EXIST) THEN TRUE
    ELSE NotUndefinedNorEmpty(c.value)

\* the split as it would be without the filter of the empty items
SplitCommaList_KeepEmpty(s) ==
    LET parts == Split(s, ",")
    IN [i \in 1..Len(parts) |-> Trim(parts[i])]

\* value.split(',').map(item => item.trim()).filter(item => item !== '')
SplitCommaList(s) ==
    LET parts == Split(s, ",")
        trimmed == [i \in 1..Len(parts) |-> Trim(parts[i])]
        NonEmpty(item) == item # <<>>
    IN SelectSeq(trimmed, NonEmpty)

\* item => { const parsed = parseInt(item, 10); return isNaN(parsed) ? item : parsed; }
ParseIntItem(item) == LET parsed == ParseInt(item) IN IF parsed = NaN THEN Str(item) ELSE parsed

\* item => { const parsed = parseFloat(item); return isNaN(parsed) ? item : parsed; }
ParseFloatItem(item) == LET parsed == ParseFloat(item) IN IF parsed = NaN THEN Str(item) ELSE parsed

\* the boolean keywords of an #in/#notIn item
ParseBooleanItem(item) ==
    LET lower == ToLowerCase(item)
    IN IF lower \in {<<"t", "r", "u", "e">>, <<"1">>, <<"y", "e", "s">>} THEN Bool(TRUE)
       ELSE IF lower \in {<<"f", "a", "l", "s", "e">>, <<"0">>, <<"n", "o">>} THEN Bool(FALSE)
       ELSE Str(item)

\* the per-type map as it would be without the boolean keywords
CoerceItems_NoBoolean(items, type) ==
    IF type = TYPE_INTEGER THEN [i \in 1..Len(items) |-> ParseIntItem(items[i])]
    ELSE IF type = TYPE_DECIMAL \/ type = TYPE_NUMBER
    THEN [i \in 1..Len(items) |-> ParseFloatItem(items[i])]
    ELSE [i \in 1..Len(items) |-> Str(items[i])]

\* the per-type map over the split items; type is a string
CoerceItems(items, type) ==
    IF type = TYPE_INTEGER THEN [i \in 1..Len(items) |-> ParseIntItem(items[i])]
    ELSE IF type = TYPE_DECIMAL \/ type = TYPE_NUMBER
    THEN [i \in 1..Len(items) |-> ParseFloatItem(items[i])]
    ELSE IF type = TYPE_BOOLEAN THEN [i \in 1..Len(items) |-> ParseBooleanItem(items[i])]
    ELSE [i \in 1..Len(items) |-> Str(items[i])]

\* condition.schema?.[field]?.type: schema is Undefined or a sequence of
\* [k |-> property name, type |-> value] entries with distinct names
SchemaType(schema, field) ==
    IF schema.t \in {"undefined", "null"} THEN Undefined
    ELSE IF \E i \in 1..Len(schema.m) : schema.m[i].k = field
    THEN schema.m[CHOOSE i \in 1..Len(schema.m) : schema.m[i].k = field].type
    ELSE Undefined

\* itemValue of one valid item-condition of a list condition
ListItemValue(condition, itemCond) ==
    IF (itemCond.operator = Str(OP_IN) \/ itemCond.operator = Str(OP_NOT_IN))
       /\ IsStr(itemCond.value)
    THEN LET items == SplitCommaList(itemCond.value.s)
             itemFieldType == SchemaType(condition.schema, ToPropertyKey(itemCond.field))
         IN IF Truthy(itemFieldType)
            THEN Arr(CoerceItems(items, ToLowerCase(itemFieldType.s)))
            ELSE Arr([i \in 1..Len(items) |-> Str(items[i])])
    ELSE itemCond.value

\* the item node as it would be with the item field split like a flat field
ListItemNode_SplitField(condition, itemCond) ==
    LET itemValue == ListItemValue(condition, itemCond)
        fieldObject == buildNestedObject(ToPropertyKey(itemCond.field), itemValue)
    IN IF itemCond.operator = Str(OP_EQ) THEN fieldObject
       ELSE Obj(ToPropertyKey(itemCond.operator), fieldObject)

\* the node of one valid item-condition
ListItemNode(condition, itemCond) ==
    LET itemValue == ListItemValue(condition, itemCond)
    IN IF itemCond.operator = Str(OP_EQ)
       THEN Obj(ToPropertyKey(itemCond.field), itemValue)
       ELSE Obj(ToPropertyKey(itemCond.operator), Obj(ToPropertyKey(itemCond.field), itemValue))

\* the list branch as it would be without the filter over the item-conditions
ListNode_KeepInvalidItems(condition) ==
    LET itemConditions ==
            [i \in 1..Len(condition.listConditions.a) |->
                ListItemNode(condition, condition.listConditions.a[i])]
        itemLogicOperator == IF condition.listLogic = Str(LOGIC_OR) THEN OP_OR ELSE OP_AND
        listFieldName == ReplaceDots(condition.field.s)
        mode == IF Truthy(condition.listMode) THEN condition.listMode ELSE Str(MODE_ANY)
    IN Obj(ToPropertyKey(mode), Obj(listFieldName, Obj(itemLogicOperator, Arr(itemConditions))))

\* the branch `fieldType === 'list' && listConditions`
ListNode(condition) ==
    LET validListConditions == SelectSeq(condition.listConditions.a, IsValidListCondition)
        itemConditions ==
            [i \in 1..Len(validListConditions) |-> ListItemNode(condition, validListConditions[i])]
        itemLogicOperator == IF condition.listLogic = Str(LOGIC_OR) THEN OP_OR ELSE OP_AND
        listItemsWithLogic == Obj(itemLogicOperator, Arr(itemConditions))
        listFieldName == ReplaceDots(condition.field.s)
        mode == IF Truthy(condition.listMode) THEN condition.listMode ELSE Str(MODE_ANY)
    IN IF Len(validListConditions) = 0 THEN Null
       ELSE Obj(ToPropertyKey(mode), Obj(listFieldName, listItemsWithLogic))

\* arrayValue of an #in/#notIn condition
InArrayValue(condition) ==
    IF IsStr(condition.value)
    THEN LET items == SplitCommaList(condition.value.s)
         IN IF IsStr(condition.fieldType)
            THEN Arr(CoerceItems(items, condition.fieldType.s))
            ELSE Arr([i \in 1..Len(items) |-> Str(items[i])])
    ELSE condition.value

\* the branch of #exists and #notExist
ExistsNode(condition) ==
    Obj(ToPropertyKey(condition.operator), buildNestedObject(condition.field.s, Bool(TRUE)))

\* the branch of #in and #notIn
InNode(condition) ==
    Obj(ToPropertyKey(condition.operator),
        buildNestedObject(condition.field.s, InArrayValue(condition)))

\* the array branch as it would be with the scalar nesting
ArrayNode_NotInverted(condition) ==
    Obj(ToPropertyKey(condition.operator),
        buildNestedObject(condition.field.s, condition.value))

\* the branch `fieldType === 'array'`: {field: {operator: value}}
ArrayNode(condition) ==
    buildNestedObject(condition.field.s,
                      Obj(ToPropertyKey(condition.operator), condition.value))

\* the last branch as it would be with the array nesting for the operators
ScalarNode_OperatorInside(condition) ==
    IF condition.operator = Str(OP_EQ)
    THEN buildNestedObject(condition.field.s, condition.value)
    ELSE buildNestedObject(condition.field.s,
                           Obj(ToPropertyKey(condition.operator), condition.value))

\* the last branch: the nested field object, wrapped in the operator unless #eq
ScalarNode(condition) ==
    LET fieldObject == buildNestedObject(condition.field.s, condition.value)
    IN IF condition.operator = Str(OP_EQ) THEN fieldObject
       ELSE Obj(ToPropertyKey(condition.operator), fieldObject)

\* the function given to validConditions.map (Step 2): a node, or Null
ConditionNode(condition) ==
    IF condition.fieldType = Str(TYPE_LIST) /\ Truthy(condition.listConditions)
    THEN ListNode(condition)
    ELSE IF condition.operator = Str(OP_EXISTS) \/ condition.operator = Str(OP_NOT_EXIST)
    THEN ExistsNode(condition)
    ELSE IF condition.operator = Str(OP_IN) \/ condition.operator = Str(OP_NOT_IN)
    THEN InNode(condition)
    ELSE IF condition.fieldType = Str(TYPE_ARRAY) THEN ArrayNode(condition)
    ELSE ScalarNode(condition)

\* Step 3 as it would be without the single-condition case
CombineNodes_AlwaysWrap(nodes, logic) ==
    IF Len(nodes) = 0 THEN <<>>
    ELSE JSONStringify(Obj(IF logic = Str(LOGIC_OR) THEN OP_OR ELSE OP_AND, Arr(nodes)))

\* Step 3: the text returned for the nodes that are left
CombineNodes(nodes, logic) ==
    IF Len(nodes) = 0 THEN <<>>
    ELSE IF Len(nodes) = 1 THEN JSONStringify(nodes[1])
    ELSE JSONStringify(Obj(IF logic = Str(LOGIC_OR) THEN OP_OR ELSE OP_AND, Arr(nodes)))

\* whether the predicate of conditions.filter (Step 1) throws a TypeError on
\* c: c.field of null or undefined, listConditions.some of a value that is
\* not an array, lc.field of a null or undefined item that some() reaches
IsValidConditionThrows(c) ==
    IF c \in {Null, Undefined} THEN TRUE
    ELSE IF ~Truthy(c.field) THEN FALSE
    ELSE IF c.fieldType = Str(TYPE_LIST) \/ Truthy(c.isList)
    THEN IF ~Truthy(c.listConditions) THEN FALSE
         ELSE IF ~IsArr(c.listConditions) THEN TRUE
         ELSE \E j \in 1..Len(c.listConditions.a) :
                 /\ c.listConditions.a[j] \in {Null, Undefined}
                 /\ \A k \in 1..(j - 1) :
                       /\ c.listConditions.a[k] \notin {Null, Undefined}
                       /\ ~IsValidListCondition(c.listConditions.a[k])
    ELSE FALSE

\* whether the function given to validConditions.map (Step 2) throws a
\* TypeError on a valid condition: lc.field of a null item in
\* listConditions.filter, toLowerCase of a schema type that is not a string,
\* field.replace or path.split of a field that is not a string
ConditionNodeThrows(condition) ==
    IF condition.fieldType = Str(TYPE_LIST) /\ Truthy(condition.listConditions)
    THEN IF \E j \in 1..Len(condition.listConditions.a) :
                condition.listConditions.a[j] \in {Null, Undefined}
         THEN TRUE
         ELSE LET validListConditions ==
                      SelectSeq(condition.listConditions.a, IsValidListCondition)
                  BadType(itemCond) ==
                      /\ itemCond.operator \in {Str(OP_IN), Str(OP_NOT_IN)}
                      /\ IsStr(itemCond.value)
                      /\ LET itemFieldType ==
                                 SchemaType(condition.schema, ToPropertyKey(itemCond.field))
                         IN Truthy(itemFieldType) /\ ~IsStr(itemFieldType)
              IN \/ \E j \in 1..Len(validListConditions) : BadType(validListConditions[j])
                 \/ Len(validListConditions) > 0 /\ ~IsStr(condition.field)
    ELSE ~IsStr(condition.field)

\* whether the call buildFilterString(conds, logic) throws
buildFilterStringThrows(conds) ==
    IF \E i \in 1..Len(conds) : IsValidConditionThrows(conds[i]) THEN TRUE
    ELSE \E i \in 1..Len(conds) :
            IsValidCondition(conds[i]) /\ ConditionNodeThrows(conds[i])

\* buildFilterString with its locals: valid (validConditions), nodes
\* (filterConditions) and the returned text raw; a local the call does not
\* reach is Undefined.  logic Undefined is the omitted argument (default 'and')
buildFilterStringLocals(conds, logic) ==
    IF Len(conds) = 0 THEN [valid |-> Undefined, nodes |-> Undefined, raw |-> <<>>]
    ELSE LET valid == SelectSeq(conds, IsValidCondition)
             mapped == [i \in 1..Len(valid) |-> ConditionNode(valid[i])]
             NotNull(fc) == fc # Null
             nodes == SelectSeq(mapped, NotNull)
             lg == IF logic = Undefined THEN Str(LOGIC_AND) ELSE logic
         IN IF Len(valid) = 0 THEN [valid |-> Arr(valid), nodes |-> Undefined, raw |-> <<>>]
            ELSE [valid |-> Arr(valid), nodes |-> Arr(nodes), raw |-> CombineNodes(nodes, lg)]

buildFilterString(conds, logic) == buildFilterStringLocals(conds, logic).raw

\* encodeFilterString: '' for the empty text
encodeFilterString(filterString) ==
    IF filterString = <<>> THEN <<>> ELSE EncodeURIComponent(filterString)

\* buildAndEncodeFilter
buildAndEncodeFilter(conds, logic) ==
    LET rawFilter_ == buildFilterString(conds, logic)
    IN [raw |-> rawFilter_, encoded |-> encodeFilterString(rawFilter_)]

----------------------------------------------------------------------------
\* The operator catalog and its lookups

OP_NOT_CONTAIN == <<"#", "n", "o", "t", "C", "o", "n", "t", "a", "i", "n">>
OP_STARTS_WITH == <<"#", "s", "t", "a", "r", "t", "s", "W", "i", "t", "h">>
OP_ENDS_WITH == <<"#", "e", "n", "d", "s", "W", "i", "t", "h">>
OP_GTE == <<"#", "g", "t", "e">>
OP_LT == <<"#", "l", "t">>
OP_LTE == <<"#", "l", "t", "e">>
TYPE_DATE == <<"d", "a", "t", "e">>
TYPE_DATE_TIME == <<"d", "a", "t", "e", "_", "t", "i", "m", "e">>
TYPE_ENUM == <<"e", "n", "u", "m">>
TYPE_FLOAT == <<"f", "l", "o", "a", "t">>
TYPE_DOUBLE == <<"d", "o", "u", "b", "l", "e">>
FIELD_TAGS == <<"t", "a", "g", "s">>

\* the `types` arrays of the catalog
EqualityTypes ==
    <<TYPE_STRING, TYPE_INTEGER, TYPE_DECIMAL, TYPE_DATE, TYPE_NUMBER, TYPE_BOOLEAN,
      TYPE_DATE_TIME>>
ContainTypes == <<TYPE_STRING, TYPE_ARRAY>>
StringTypes == <<TYPE_STRING>>
OrderTypes == <<TYPE_INTEGER, TYPE_DECIMAL, TYPE_DATE, TYPE_NUMBER, TYPE_DATE_TIME>>
MembershipTypes ==
    <<TYPE_STRING, TYPE_INTEGER, TYPE_DECIMAL, TYPE_DATE, TYPE_NUMBER, TYPE_DATE_TIME>>
ExistenceTypes ==
    <<TYPE_STRING, TYPE_INTEGER, TYPE_DECIMAL, TYPE_DATE, TYPE_NUMBER, TYPE_ARRAY,
      TYPE_BOOLEAN, TYPE_DATE_TIME>>

Operator(value, types) == [value |-> value, types |-> types]

\* the catalog as it would be with #exists and #notExist not listing 'array'
FILTER_OPERATORS_ExistsNotOnArray ==
    <<Operator(OP_EQ, EqualityTypes), Operator(OP_NE, EqualityTypes),
      Operator(OP_CONTAINS, ContainTypes), Operator(OP_NOT_CONTAIN, ContainTypes),
      Operator(OP_STARTS_WITH, StringTypes), Operator(OP_ENDS_WITH, StringTypes),
      Operator(OP_GT, OrderTypes), Operator(OP_GTE, OrderTypes),
      Operator(OP_LT, OrderTypes), Operator(OP_LTE, OrderTypes),
      Operator(OP_IN, MembershipTypes), Operator(OP_NOT_IN, MembershipTypes),
      Operator(OP_EXISTS, EqualityTypes), Operator(OP_NOT_EXIST, EqualityTypes)>>

\* FILTER_OPERATORS, value and types of each entry
FILTER_OPERATORS ==
    <<Operator(OP_EQ, EqualityTypes), Operator(OP_NE, EqualityTypes),
      Operator(OP_CONTAINS, ContainTypes), Operator(OP_NOT_CONTAIN, ContainTypes),
      Operator(OP_STARTS_WITH, StringTypes), Operator(OP_ENDS_WITH, StringTypes),
      Operator(OP_GT, OrderTypes), Operator(OP_GTE, OrderTypes),
      Operator(OP_LT, OrderTypes), Operator(OP_LTE, OrderTypes),
      Operator(OP_IN, MembershipTypes), Operator(OP_NOT_IN, MembershipTypes),
      Operator(OP_EXISTS, ExistenceTypes), Operator(OP_NOT_EXIST, ExistenceTypes)>>

\* Array.prototype.includes over strings
Includes(seq, x) == \E i \in 1..Len(seq) : seq[i] = x

\* typeMap[normalizedType] || normalizedType
MappedType(normalizedType) ==
    IF normalizedType = TYPE_NUMBER THEN TYPE_INTEGER
    ELSE IF normalizedType = TYPE_FLOAT \/ normalizedType = TYPE_DOUBLE THEN TYPE_DECIMAL
    ELSE normalizedType

stringOnlyOperators == <<OP_CONTAINS, OP_NOT_CONTAIN, OP_STARTS_WITH, OP_ENDS_WITH>>

\* the lookup as it would be without any filter
getOperatorsForType_Unfiltered(type) == FILTER_OPERATORS

\* getOperatorsForType; type is a string
getOperatorsForType(type) ==
    LET mappedType == MappedType(ToLowerCase(type))
        isNumericType == mappedType = TYPE_INTEGER \/ mappedType = TYPE_DECIMAL
        Applies(op) ==
            IF isNumericType /\ Includes(stringOnlyOperators, op.value) THEN FALSE
            ELSE Includes(op.types, mappedType)
    IN SelectSeq(FILTER_OPERATORS, Applies)

\* attributes.find(attr => attr.name === fieldName): the first, or Undefined
FindAttribute(attrs, name) ==
    IF \E i \in 1..Len(attrs) : attrs[i].name = name
    THEN attrs[CHOOSE i \in 1..Len(attrs) :
                  attrs[i].name = name /\ \A j \in 1..(i - 1) : attrs[j].name # name]
    ELSE Undefined

\* the lookup as it would be without the rule for 'tags'
getOperatorsForAttribute_NoTagsRule(attrs, name) ==
    LET attribute == FindAttribute(attrs, name)
        IsEqOrNe(op) == op.value = OP_EQ \/ op.value = OP_NE
    IN IF attribute = Undefined THEN FILTER_OPERATORS
       ELSE IF attribute.type = TYPE_ENUM THEN SelectSeq(FILTER_OPERATORS, IsEqOrNe)
       ELSE getOperatorsForType(attribute.type)

\* getOperatorsForAttribute of FilterBuilder
getOperatorsForAttribute(attrs, name) ==
    LET attribute == FindAttribute(attrs, name)
        IsContainOperator(op) == op.value = OP_CONTAINS \/ op.value = OP_NOT_CONTAIN
        IsEqOrNe(op) == op.value = OP_EQ \/ op.value = OP_NE
    IN IF attribute = Undefined THEN FILTER_OPERATORS
       ELSE IF name = FIELD_TAGS THEN SelectSeq(FILTER_OPERATORS, IsContainOperator)
       ELSE IF attribute.type = TYPE_ENUM THEN SelectSeq(FILTER_OPERATORS, IsEqOrNe)
       ELSE getOperatorsForType(attribute.type)

----------------------------------------------------------------------------
\* The inputs of the compiler: FilterSets of the data model

\* the longest FilterSet of more than one condition
MaxConds == 3
\* the longest listConditions of more than one item-condition
MaxItems == 2

\* a flat condition, as addCondition and updateCondition build it
Cond(field, operator, value, fieldType) ==
    [field |-> field, operator |-> operator, value |-> value, fieldType |-> fieldType,
     isList |-> Undefined, listMode |-> Undefined, listLogic |-> Undefined,
     listConditions |-> Undefined, schema |-> Undefined]

\* a list condition, as updateCondition builds it for a list attribute
ListCond(field, listMode, listLogic, listConditions, schema) ==
    [field |-> field, operator |-> Null, value |-> Str(<<>>), fieldType |-> Str(TYPE_LIST),
     isList |-> Undefined, listMode |-> listMode, listLogic |-> listLogic,
     listConditions |-> listConditions, schema |-> schema]

\* an item-condition, as addListCondition and updateListCondition build it
Item(field, operator, value) == [field |-> field, operator |-> operator, value |-> value]

F_A == <<"a">>
F_AB == <<"a", ".", "b">>
F_ABC == <<"a", ".", "b", ".", "c">>
F_LIST_DOT == <<"d", ".", "L">>
F_LIST_SEP == <<"d", "SOH", "L">>
F_ITEM_C == <<"c">>
F_ITEM_N == <<"n">>
F_ITEM_B == <<"b">>
F_ITEM_CD == <<"c", ".", "d">>

V_X == <<"x">>
\* "a, b ,c"
V_ABC == <<"a", ",", " ", "b", " ", ",", "c">>
\* "1,x,,2"
V_MIXED == <<"1", ",", "x", ",", ",", "2">>
\* "12ab, 1.50,-3"
V_NUMS == <<"1", "2", "a", "b", ",", " ", "1", ".", "5", "0", ",", "-", "3">>
\* "YES,0,no,maybe"
V_BOOLS == <<"Y", "E", "S", ",", "0", ",", "n", "o", ",", "m", "a", "y", "b", "e">>
\* " , "
V_BLANK == <<" ", ",", " ">>
\* e with acute, a quote, a brace, and "%41"
V_SPECIAL == <<"U+00E9", "\"", "}", "%", "4", "1">>

FlatFields == {Str(<<>>), Str(F_A), Str(F_AB), Str(F_ABC)}
FlatOperators ==
    {Null, Str(<<>>), Str(OP_EQ), Str(OP_GT), Str(OP_CONTAINS), Str(OP_IN), Str(OP_NOT_IN),
     Str(OP_EXISTS), Str(OP_NOT_EXIST)}
FlatValues ==
    {Undefined, Str(<<>>), Str(V_X), Str(V_ABC), Str(V_MIXED), Str(V_NUMS), Str(V_BOOLS),
     Str(V_BLANK), Str(V_SPECIAL), Int_(30), Int_(0), Bool(TRUE), Bool(FALSE)}
FlatTypes ==
    {Undefined, Str(TYPE_STRING), Str(TYPE_INTEGER), Str(TYPE_DECIMAL), Str(TYPE_NUMBER),
     Str(TYPE_BOOLEAN), Str(TYPE_ARRAY)}
FlatConds ==
    {Cond(f, o, v, ty) : f \in FlatFields, o \in FlatOperators, v \in FlatValues, ty \in FlatTypes}

\* the sub-schema of the list attribute; the lists endpoint passes the type
\* names through as the API writes them
ItemSchema ==
    [t |-> "object",
     m |-> <<[k |-> F_ITEM_C, type |-> Str(TYPE_STRING)],
             [k |-> F_ITEM_N, type |-> Str(<<"I", "N", "T", "E", "G", "E", "R">>)],
             [k |-> F_ITEM_B, type |-> Str(TYPE_BOOLEAN)],
             [k |-> F_ITEM_CD, type |-> Str(TYPE_DECIMAL)]>>]

ItemFields == {Str(<<>>), Str(F_ITEM_C), Str(F_ITEM_N), Str(F_ITEM_B), Str(F_ITEM_CD)}
ItemOperators == {Str(<<>>), Str(OP_EQ), Str(OP_GT), Str(OP_IN), Str(OP_NOT_IN)}
ItemValues ==
    {Undefined, Str(<<>>), Str(V_X), Str(V_MIXED), Str(V_NUMS), Str(V_BOOLS), Int_(5),
     Bool(FALSE)}
Items == {Item(f, o, v) : f \in ItemFields, o \in ItemOperators, v \in ItemValues}
\* the item-conditions of the longer listConditions
SmallItems ==
    {Item(Str(F_ITEM_C), Str(OP_EQ), Str(V_X)),
     Item(Str(F_ITEM_N), Str(OP_IN), Str(V_MIXED)),
     Item(Str(F_ITEM_CD), Str(OP_GT), Int_(5)),
     Item(Str(<<>>), Str(OP_EQ), Str(V_X)),
     Item(Str(F_ITEM_B), Str(OP_EQ), Str(<<>>)),
     Item(Str(F_ITEM_B), Str(OP_NOT_IN), Str(V_BOOLS))}

ListConditionsInputs ==
    {Undefined, Arr(<<>>)}
        \cup {Arr(<<it>>) : it \in Items}
        \cup UNION {{Arr(a) : a \in [1..n -> SmallItems]} : n \in 2..MaxItems}

ListConds ==
    {ListCond(f, m, l, lcs, sch) :
        f \in {Str(<<>>), Str(F_LIST_DOT), Str(F_LIST_SEP)},
        m \in {Undefined, Str(MODE_ANY), Str(MODE_ALL)},
        l \in {Undefined, Str(LOGIC_AND), Str(LOGIC_OR)},
        lcs \in ListConditionsInputs,
        sch \in {Undefined, ItemSchema}}

\* the conditions of the longer FilterSets
SmallConds ==
    {Cond(Str(F_A), Str(OP_EQ), Str(V_X), Str(TYPE_STRING)),
     Cond(Str(F_AB), Str(OP_GT), Int_(30), Str(TYPE_INTEGER)),
     Cond(Str(F_A), Str(OP_EQ), Str(<<>>), Str(TYPE_STRING)),
     Cond(Str(<<>>), Str(OP_EQ), Str(V_X), Str(TYPE_STRING)),
     Cond(Str(F_ABC), Str(OP_EXISTS), Str(<<>>), Str(TYPE_ARRAY)),
     Cond(Str(F_A), Str(OP_IN), Str(V_ABC), Str(TYPE_STRING)),
     Cond(Str(F_A), Str(OP_EQ), Bool(FALSE), Str(TYPE_BOOLEAN)),
     ListCond(Str(F_LIST_DOT), Str(MODE_ALL), Str(LOGIC_OR),
              Arr(<<Item(Str(F_ITEM_C), Str(OP_EQ), Str(V_X)),
                    Item(Str(F_ITEM_N), Str(OP_IN), Str(V_MIXED))>>), ItemSchema),
     ListCond(Str(F_LIST_DOT), Undefined, Undefined,
              Arr(<<Item(Str(<<>>), Str(OP_EQ), Str(V_X))>>), Undefined)}

FilterSets ==
    {<<>>}
        \cup {<<c>> : c \in FlatConds \cup ListConds}
        \cup UNION {[1..n -> SmallConds] : n \in 2..MaxConds}

\* the logic argument; Undefined is the omitted argument
Logics == {Undefined, Str(LOGIC_AND), Str(LOGIC_OR)}

----------------------------------------------------------------------------
\* The call buildAndEncodeFilter(conditions, filterLogic)

\* nothing is loaded, nothing was sent
AppIdle ==
    /\ apiKey = <<>>
    /\ cleanApiKey = <<>>
    /\ requests = {}
    /\ fetcher = "src/src/utils/attributeFetcher.js"
    /\ sourceOutcome = [standard |-> "some", custom |-> "some", lists |-> "some"]
    /\ fetchResult = Undefined
    /\ attributesLoaded = FALSE
    /\ attributeError = Null

\* no listing is under way
PagesIdle ==
    /\ endpoint = "/people/2/customAttributes"
    /\ remoteCount = 0
    /\ pageResponse = <<>>
    /\ page = 1
    /\ hasMore = TRUE
    /\ allItems = <<>>
    /\ pageRequests = <<>>

\* no test query was run
SessionIdle ==
    /\ testOutcome = Undefined
    /\ testResult = Null
    /\ baseUrl = <<>>
    /\ isLoadingAttributes = FALSE
    /\ isTestingQuery = FALSE
    /\ alert = Null
    /\ loadsInFlight = 0
    /\ testsInFlight = 0
    /\ testsIssued = {}

\* the clock stands at its first tick
EditorIdle == now = 1

OthersIdle == PagesIdle /\ SessionIdle /\ EditorIdle

\* no operator lookup is under way
OperatorsIdle ==
    attributes = <<>> /\ fieldName = <<>> /\ attributeType = <<>> /\ operators = <<>>

Init ==
    /\ conditions \in FilterSets
    /\ filterLogic \in Logics
    /\ pc = "input"
    /\ validConditions = Undefined
    /\ filterConditions = Undefined
    /\ rawFilter = <<>>
    /\ encodedFilter = <<>>
    /\ OperatorsIdle
    /\ AppIdle
    /\ OthersIdle

\* the call returns (pc "done") or throws (pc "thrown")
BuildAndEncodeFilter ==
    /\ pc = "input"
    /\ IF buildFilterStringThrows(conditions)
       THEN /\ pc' = "thrown"
            /\ UNCHANGED <<validConditions, filterConditions, rawFilter, encodedFilter>>
       ELSE LET locals == buildFilterStringLocals(conditions, filterLogic)
            IN /\ validConditions' = locals.valid
               /\ filterConditions' = locals.nodes
               /\ rawFilter' = locals.raw
               /\ encodedFilter' = encodeFilterString(locals.raw)
               /\ pc' = "done"
    /\ UNCHANGED <<conditions, filterLogic, operatorVars, appVars>>
    /\ UNCHANGED otherVars

Next == BuildAndEncodeFilter

Spec == Init /\ [][Next]_vars

----------------------------------------------------------------------------
\* The same call on any argument: conditions as a caller of the exported
\* function can write them, with properties missing or of another type

\* a condition with every property given
AnyCond(field, operator, value, fieldType, isList, listConditions, schema) ==
    [field |-> field, operator |-> operator, value |-> value, fieldType |-> fieldType,
     isList |-> isList, listMode |-> Undefined, listLogic |-> Undefined,
     listConditions |-> listConditions, schema |-> schema]

ITEM_OK == Item(Str(F_ITEM_C), Str(OP_EQ), Str(V_X))
ITEM_IN == Item(Str(F_ITEM_N), Str(OP_IN), Str(V_MIXED))
ITEM_EMPTY == Item(Str(F_ITEM_C), Str(OP_EQ), Str(<<>>))

\* a sub-schema whose type descriptors are not strings
BadSchema ==
    [t |-> "object",
     m |-> <<[k |-> F_ITEM_C, type |-> Str(TYPE_STRING)], [k |-> F_ITEM_N, type |-> Int_(7)]>>]

AnyFields == {Undefined, Null, Str(<<>>), Str(F_AB), Int_(5), Int_(0), Bool(TRUE)}
AnyOperators == {Undefined, Null, Str(OP_EQ), Str(OP_IN), Str(OP_EXISTS), Int_(7)}
AnyValues == {Undefined, Null, Str(<<>>), Str(V_X), Arr(<<Str(V_X)>>), Int_(0)}
AnyTypes == {Undefined, Null, Str(TYPE_STRING), Str(TYPE_ARRAY), Str(TYPE_LIST), Int_(3)}
AnyListConditions ==
    {Undefined, Arr(<<>>), Arr(<<ITEM_OK>>), Arr(<<ITEM_EMPTY>>), Arr(<<ITEM_IN>>),
     Str(V_X), Int_(5), Arr(<<Null>>), Arr(<<ITEM_OK, Null>>), Arr(<<Null, ITEM_OK>>)}
AnySchemas == {Undefined, Null, ItemSchema, BadSchema}

\* conditions without list properties
AnyFlatConds ==
    {AnyCond(f, o, v, ty, Undefined, Undefined, Undefined) :
        f \in AnyFields, o \in AnyOperators, v \in AnyValues, ty \in AnyTypes}

\* conditions with list properties, the isList flag among them
AnyListConds ==
    {AnyCond(f, o, v, ty, il, lcs, sch) :
        f \in {Str(<<>>), Str(F_AB), Int_(5)},
        o \in {Null, Str(OP_EQ)},
        v \in {Str(<<>>), Str(V_X)},
        ty \in {Undefined, Str(TYPE_STRING), Str(TYPE_ARRAY), Str(TYPE_LIST)},
        il \in {Undefined, Bool(TRUE), Bool(FALSE)},
        lcs \in AnyListConditions,
        sch \in AnySchemas}

\* the elements of the longer arguments; null is an element that is no object
SmallAnyConds ==
    {Null,
     AnyCond(Str(F_AB), Str(OP_EQ), Str(V_X), Str(TYPE_STRING), Undefined, Undefined, Undefined),
     AnyCond(Int_(5), Str(OP_EQ), Str(V_X), Str(TYPE_STRING), Undefined, Undefined, Undefined),
     AnyCond(Str(F_AB), Null, Str(<<>>), Str(TYPE_STRING), Bool(TRUE), Arr(<<ITEM_OK>>), Undefined),
     AnyCond(Str(F_AB), Null, Str(<<>>), Str(TYPE_LIST), Bool(TRUE), Arr(<<ITEM_OK>>), Undefined)}

AnyFilterSets ==
    {<<>>}
        \cup {<<c>> : c \in AnyFlatConds \cup AnyListConds}
        \cup [1..2 -> SmallAnyConds]

InitAnyInput ==
    /\ conditions \in AnyFilterSets
    /\ filterLogic \in Logics
    /\ pc = "input"
    /\ validConditions = Undefined
    /\ filterConditions = Undefined
    /\ rawFilter = <<>>
    /\ encodedFilter = <<>>
    /\ OperatorsIdle
    /\ AppIdle
    /\ OthersIdle

SpecAnyInput == InitAnyInput /\ [][Next]_vars

----------------------------------------------------------------------------
\* The operator lookups on the loaded attributes

UpperChar(c) ==
    IF \E i \in 1..Len(LowerChars) : LowerChars[i] = c
    THEN UpperChars[CHOOSE i \in 1..Len(LowerChars) : LowerChars[i] = c]
    ELSE c
\* the spellings of a type name: as is, in capitals, with a capital initial
UpperCased(s) == [i \in 1..Len(s) |-> UpperChar(s[i])]
Capitalized(s) == [i \in 1..Len(s) |-> IF i = 1 THEN UpperChar(s[i]) ELSE s[i]]

\* a type no operator lists
TYPE_TEXT == <<"t", "e", "x", "t">>
TypeNames ==
    {TYPE_STRING, TYPE_INTEGER, TYPE_DECIMAL, TYPE_NUMBER, TYPE_FLOAT, TYPE_DOUBLE,
     TYPE_BOOLEAN, TYPE_DATE, TYPE_DATE_TIME, TYPE_ENUM, TYPE_ARRAY, TYPE_LIST, TYPE_TEXT}
TypeInputs ==
    TypeNames \cup {UpperCased(t) : t \in TypeNames} \cup {Capitalized(t) : t \in TypeNames}

Attr(name, type) == [name |-> name, type |-> type]

FIELD_ID == <<"i", "d">>
FIELD_GENDER == <<"g", "e", "n", "d", "e", "r">>
FIELD_BIRTH_DATE == <<"b", "i", "r", "t", "h", "D", "a", "t", "e">>
\* a custom attribute called tags: its name carries the prefix
FIELD_CUSTOM_TAGS ==
    <<"c", "u", "s", "t", "o", "m", "A", "t", "t", "r", "i", "b", "u", "t", "e", "s", ".",
      "t", "a", "g", "s">>
FIELD_CUSTOM_X ==
    <<"c", "u", "s", "t", "o", "m", "A", "t", "t", "r", "i", "b", "u", "t", "e", "s", ".", "x">>
FIELD_UNKNOWN == <<"T", "a", "g", "s">>

\* standard attributes, one of each type the fixed list has
StandardAttributes ==
    <<Attr(FIELD_ID, TYPE_STRING), Attr(FIELD_GENDER, TYPE_ENUM),
      Attr(FIELD_BIRTH_DATE, TYPE_DATE), Attr(FIELD_TAGS, TYPE_ARRAY)>>
\* custom attributes: the prefixed name, the data type in lower case
CustomAttributes ==
    {<<>>} \cup {<<Attr(n, t)>> : n \in {FIELD_CUSTOM_TAGS, FIELD_CUSTOM_X}, t \in TypeNames}
\* the loaded attributes: the standard ones unless that source failed, then
\* the custom ones
AttributeLists == {std \o cus : std \in {<<>>, StandardAttributes}, cus \in CustomAttributes}
FieldNames ==
    {<<>>, FIELD_TAGS, FIELD_GENDER, FIELD_ID, FIELD_BIRTH_DATE, FIELD_CUSTOM_TAGS,
     FIELD_CUSTOM_X, FIELD_UNKNOWN}

\* no compilation is under way
CompilerIdle ==
    /\ conditions = <<>>
    /\ filterLogic = Undefined
    /\ validConditions = Undefined
    /\ filterConditions = Undefined
    /\ rawFilter = <<>>
    /\ encodedFilter = <<>>

InitOperators ==
    /\ attributes \in AttributeLists
    /\ fieldName \in FieldNames
    /\ attributeType \in TypeInputs
    /\ operators = <<>>
    /\ pc = "input"
    /\ CompilerIdle
    /\ AppIdle
    /\ OthersIdle

GetOperatorsForType ==
    /\ pc = "input"
    /\ operators' = getOperatorsForType(attributeType)
    /\ pc' = "operatorsForType"
    /\ UNCHANGED <<attributes, fieldName, attributeType, compilerVars, appVars>>
    /\ UNCHANGED otherVars

GetOperatorsForAttribute ==
    /\ pc = "input"
    /\ operators' = getOperatorsForAttribute(attributes, fieldName)
    /\ pc' = "operatorsForAttribute"
    /\ UNCHANGED <<attributes, fieldName, attributeType, compilerVars, appVars>>
    /\ UNCHANGED otherVars

NextOperators == GetOperatorsForType \/ GetOperatorsForAttribute

SpecOperators == InitOperators /\ [][NextOperators]_vars

----------------------------------------------------------------------------
\* apiClient.js, attributeFetcher.js, and the handlers of App.jsx

\* the longest API key entered
MaxKeyLen == 3

\* characters outside \x00-\x7F
IsNonAscii(c) == c \in {"U+00E9", "U+00A0"}

\* replace(/[^\x00-\x7F]/g, '')
RemoveNonAscii(s) ==
    LET IsAscii(c) == ~IsNonAscii(c)
    IN SelectSeq(s, IsAscii)

\* sanitizeApiKey of apiClient.js and of the fetcher with lists
sanitizeApiKey(key) ==
    IF key = <<>> THEN <<>> ELSE RemoveNonAscii(Trim(key))

\* `App ${key}`
AuthorizationHeader(key) == <<"A", "p", "p", " ">> \o key

\* useState('https://api.infobip.com')
DEFAULT_BASE_URL ==
    <<"h", "t", "t", "p", "s", ":", "/", "/", "a", "p", "i", ".", "i", "n", "f", "o", "b", "i",
      "p", ".", "c", "o", "m">>

IsLetter(c) == LowerChar(c) \in {LowerChars[i] : i \in 1..Len(LowerChars)}
IsSchemeChar(c) == IsLetter(c) \/ IsDigit(c) \/ c \in {"+", "-", "."}

\* the text has a scheme that ends at position colon, and something other
\* than slashes after it
HasSchemeAndHost(t, colon) ==
    /\ colon > 1
    /\ t[colon] = ":"
    /\ IsLetter(t[1])
    /\ \A i \in 2..(colon - 1) : IsSchemeChar(t[i])
    /\ \E i \in (colon + 1)..Len(t) : t[i] \notin {"/", "\\"}

\* new URL(url) does not throw: without a base the text needs a scheme, and an
\* http(s) URL a host after it
ParsesAsUrl(url) == \E colon \in 1..Len(Trim(url)) : HasSchemeAndHost(Trim(url), colon)

ERROR_URL_REQUIRED == "Base URL is required"
ERROR_URL_INVALID == "Base URL must be a valid URL"
ERROR_KEY_REQUIRED == "API Key is required"

\* validateApiConfig as it would be if only an empty key were refused
validateApiConfig_BlankKeyPasses(url, key) ==
    LET errors ==
            (IF url = <<>> \/ Trim(url) = <<>> THEN <<ERROR_URL_REQUIRED>>
             ELSE IF ~ParsesAsUrl(url) THEN <<ERROR_URL_INVALID>> ELSE <<>>)
            \o (IF key = <<>> THEN <<ERROR_KEY_REQUIRED>> ELSE <<>>)
    IN [isValid |-> Len(errors) = 0, errors |-> errors]

\* validateApiConfig
validateApiConfig(url, key) ==
    LET errors ==
            (IF url = <<>> \/ Trim(url) = <<>> THEN <<ERROR_URL_REQUIRED>>
             ELSE IF ~ParsesAsUrl(url) THEN <<ERROR_URL_INVALID>> ELSE <<>>)
            \o (IF key = <<>> \/ Trim(key) = <<>> THEN <<ERROR_KEY_REQUIRED>> ELSE <<>>)
    IN [isValid |-> Len(errors) = 0, errors |-> errors]

\* the two fetchers of the repository: the module App.jsx imports by path,
\* and the one with the lists source
FETCHER_TWO_SOURCES == "src/src/utils/attributeFetcher.js"
FETCHER_WITH_LISTS == "src/unnamed/part_002"
Fetchers == {FETCHER_TWO_SOURCES, FETCHER_WITH_LISTS}

Request(path, authorization) == [endpoint |-> path, authorization |-> authorization]

\* the requests of fetchAllAttributes: every page of a source has the header
\* of its first
FetchRequests(module, key) ==
    IF module = FETCHER_TWO_SOURCES
    THEN {Request("persons?limit=1", AuthorizationHeader(key)),
          Request("customAttributes", AuthorizationHeader(key))}
    ELSE {Request("persons?limit=1", AuthorizationHeader(sanitizeApiKey(key))),
          Request("customAttributes", AuthorizationHeader(sanitizeApiKey(key))),
          Request("lists", AuthorizationHeader(sanitizeApiKey(key)))}

\* the request of testFilterQuery
TestRequest(key) == Request("persons?filter", AuthorizationHeader(sanitizeApiKey(key)))

\* what a source does: it fails, or returns no attribute, or some; the
\* standard source returns its fixed list whenever it succeeds
OUTCOME_FAILS == "fails"
OUTCOME_NONE == "none"
OUTCOME_SOME == "some"
SourceOutcomes ==
    [standard : {OUTCOME_FAILS, OUTCOME_SOME},
     custom : {OUTCOME_FAILS, OUTCOME_NONE, OUTCOME_SOME},
     lists : {OUTCOME_FAILS, OUTCOME_NONE, OUTCOME_SOME}]

FIELD_LIST == <<"d", "a", "t", "a", "SOH", "L">>
ERROR_STANDARD == "Standard attributes"
ERROR_CUSTOM == "Custom attributes"

\* the attributes a source returned
SourceAttributes(outcome, source) ==
    IF outcome[source] # OUTCOME_SOME THEN <<>>
    ELSE IF source = "standard" THEN StandardAttributes
    ELSE IF source = "custom" THEN <<Attr(FIELD_CUSTOM_X, TYPE_STRING)>>
    ELSE <<Attr(FIELD_LIST, TYPE_LIST)>>

\* fetchAllAttributes as it would be if any failed source rejected the call
fetchAllAttributes_RejectOnError(module, outcome) ==
    LET lists == IF module = FETCHER_WITH_LISTS THEN SourceAttributes(outcome, "lists") ELSE <<>>
        attrs == SourceAttributes(outcome, "standard") \o SourceAttributes(outcome, "custom")
                    \o lists
    IN IF attrs = <<>> \/ outcome.standard = OUTCOME_FAILS \/ outcome.custom = OUTCOME_FAILS
       THEN [status |-> "rejected", details |-> <<>>]
       ELSE [status |-> "fulfilled", attributes |-> attrs, errors |-> Null]

\* fetchAllAttributes: settled sources are gathered, a failed standard or
\* custom source is named in errors, a failed lists source is not; with no
\* attribute at all it throws, and only the fetcher with lists appends the
\* errors to the message it throws
fetchAllAttributes(module, outcome) ==
    LET lists == IF module = FETCHER_WITH_LISTS THEN SourceAttributes(outcome, "lists") ELSE <<>>
        attrs == SourceAttributes(outcome, "standard") \o SourceAttributes(outcome, "custom")
                    \o lists
        errors == (IF outcome.standard = OUTCOME_FAILS THEN <<ERROR_STANDARD>> ELSE <<>>)
                     \o (IF outcome.custom = OUTCOME_FAILS THEN <<ERROR_CUSTOM>> ELSE <<>>)
    IN IF attrs = <<>>
       THEN [status |-> "rejected",
             details |-> IF module = FETCHER_WITH_LISTS THEN errors ELSE <<>>]
       ELSE [status |-> "fulfilled", attributes |-> attrs,
             errors |-> IF Len(errors) > 0 THEN Arr(errors) ELSE Null]

----------------------------------------------------------------------------
\* Loading the attributes and testing a query

KeyChars == {" ", "k", "U+00E9", "U+00A0"}
\* the API keys entered: every text of up to MaxKeyLen characters
ApiKeys == UNION {[1..n -> KeyChars] : n \in 0..MaxKeyLen}

ERROR_FAILED == "Failed to fetch attributes"
ERROR_PARTIAL == "Partial success"

InitApp ==
    /\ apiKey \in ApiKeys
    /\ fetcher \in Fetchers
    /\ sourceOutcome \in SourceOutcomes
    /\ cleanApiKey = <<>>
    /\ requests = {}
    /\ fetchResult = Undefined
    /\ attributesLoaded = FALSE
    /\ attributeError \in {Null, [message |-> ERROR_FAILED, errors |-> <<>>]}
    /\ pc = "input"
    /\ CompilerIdle
    /\ OperatorsIdle
    /\ OthersIdle

\* handleLoadAttributes with the default base URL, and with the outcome of each
\* source as the network gives it
HandleLoadAttributes ==
    /\ pc = "input"
    /\ IF ~validateApiConfig(DEFAULT_BASE_URL, apiKey).isValid
       THEN /\ pc' = "alert"
            /\ UNCHANGED <<requests, fetchResult, attributes, attributesLoaded, attributeError>>
       ELSE LET result == fetchAllAttributes(fetcher, sourceOutcome)
            IN /\ requests' = requests \cup FetchRequests(fetcher, apiKey)
               /\ fetchResult' = result
               /\ IF result.status = "fulfilled"
                  THEN /\ attributes' = result.attributes
                       /\ attributesLoaded' = TRUE
                       /\ attributeError' =
                             IF Truthy(result.errors)
                             THEN [message |-> ERROR_PARTIAL, errors |-> result.errors.a]
                             ELSE Null
                  ELSE /\ attributeError' = [message |-> ERROR_FAILED, errors |-> result.details]
                       /\ attributesLoaded' = FALSE
                       /\ UNCHANGED attributes
               /\ pc' = "loaded"
    /\ UNCHANGED <<apiKey, cleanApiKey, fetcher, sourceOutcome>>
    /\ UNCHANGED <<compilerVars, fieldName, attributeType, operators>>
    /\ UNCHANGED otherVars

\* handleTestQuery with the filter of no condition
HandleTestQuery ==
    /\ pc = "input"
    /\ IF ~validateApiConfig(DEFAULT_BASE_URL, apiKey).isValid
       THEN pc' = "alert" /\ UNCHANGED requests
       ELSE pc' = "tested" /\ requests' = requests \cup {TestRequest(apiKey)}
    /\ UNCHANGED <<apiKey, cleanApiKey, fetcher, sourceOutcome, fetchResult, attributesLoaded,
                   attributeError>>
    /\ UNCHANGED <<compilerVars, operatorVars>>
    /\ UNCHANGED otherVars

\* the call sanitizeApiKey(apiKey)
SanitizeApiKey ==
    /\ pc = "input"
    /\ cleanApiKey' = sanitizeApiKey(apiKey)
    /\ pc' = "sanitized"
    /\ UNCHANGED <<apiKey, requests, fetcher, sourceOutcome, fetchResult, attributesLoaded,
                   attributeError>>
    /\ UNCHANGED <<compilerVars, operatorVars>>
    /\ UNCHANGED otherVars

NextApp == HandleLoadAttributes \/ HandleTestQuery \/ SanitizeApiKey

SpecApp == InitApp /\ [][NextApp]_vars

----------------------------------------------------------------------------
\* The paginated listings of the fetcher with lists: fetchCustomAttributes
\* and fetchLists

\* const limit = 1000
limit == 1000

\* the most pages the remote holds
MaxPages == 4

ENDPOINT_CUSTOM == "/people/2/customAttributes"
ENDPOINT_LISTS == "/people/3/lists"

\* what the remote answers to the request of one page
RESPONSE_OK == "200 with the item array"
RESPONSE_NO_ARRAY == "200 without the item array"
RESPONSE_NOT_FOUND == "404"
RESPONSE_BAD_REQUEST == "400"
RESPONSE_SERVER_ERROR == "500"
Responses ==
    {RESPONSE_OK, RESPONSE_NO_ARRAY, RESPONSE_NOT_FOUND, RESPONSE_BAD_REQUEST,
     RESPONSE_SERVER_ERROR}

\* the numbers of items a remote holds: around each page boundary
RemoteCounts ==
    {0, 1, limit - 1} \cup {k * limit : k \in 1..(MaxPages - 1)}
        \cup {k * limit + 1 : k \in 1..(MaxPages - 2)}

\* the items of page p of a remote holding count items, as the run first..last
\* of item numbers; the empty run has last < first
PageItems(count, p) ==
    LET first == (p - 1) * limit + 1
        last == IF p * limit < count THEN p * limit ELSE count
    IN [first |-> first, last |-> last]
RunLength(run) == IF run.last < run.first THEN 0 ELSE run.last - run.first + 1

\* allItems.push(...items): an empty page adds nothing
PushAll(all, run) == IF RunLength(run) = 0 THEN all ELSE Append(all, run)

\* the loop as it would be if it went on while a page returned any item
NextHasMore_WhileNonEmpty(length) == length > 0

\* hasMore = data.customAttributes.length === limit
NextHasMore(length) == length = limit

\* response.status === 404, and for the lists also 400: break
EndsLoop(path, response) ==
    \/ response = RESPONSE_NOT_FOUND
    \/ path = ENDPOINT_LISTS /\ response = RESPONSE_BAD_REQUEST

InitPages ==
    /\ endpoint \in {ENDPOINT_CUSTOM, ENDPOINT_LISTS}
    /\ remoteCount \in RemoteCounts
    /\ pageResponse \in [1..MaxPages -> Responses]
    /\ page = 1
    /\ hasMore = TRUE
    /\ allItems = <<>>
    /\ pageRequests = <<>>
    /\ pc = "paging"
    /\ CompilerIdle
    /\ OperatorsIdle
    /\ AppIdle
    /\ SessionIdle
    /\ EditorIdle

\* one turn of while (hasMore): the request of the page, and what follows
\* from its response; the function returns (pc "returned") when the loop
\* ends and throws (pc "threw") on any other status
FetchPage ==
    /\ pc = "paging"
    /\ hasMore
    /\ page <= MaxPages
    /\ pageRequests' = Append(pageRequests, [page |-> page, limit |-> limit])
    /\ LET response == pageResponse[page]
           items == PageItems(remoteCount, page)
       IN IF response \notin {RESPONSE_OK, RESPONSE_NO_ARRAY}
          THEN /\ pc' = IF EndsLoop(endpoint, response) THEN "returned" ELSE "threw"
               /\ UNCHANGED <<page, hasMore, allItems>>
          ELSE IF response = RESPONSE_OK
          THEN /\ allItems' = PushAll(allItems, items)
               /\ hasMore' = NextHasMore(RunLength(items))
               /\ page' = page + 1
               /\ pc' = IF NextHasMore(RunLength(items)) THEN "paging" ELSE "returned"
          ELSE /\ hasMore' = FALSE
               /\ pc' = "returned"
               /\ UNCHANGED <<page, allItems>>
    /\ UNCHANGED <<endpoint, remoteCount, pageResponse>>
    /\ UNCHANGED <<compilerVars, operatorVars, appVars>>
    /\ UNCHANGED <<sessionVars, now>>

NextPages == FetchPage

SpecPages == InitPages /\ [][NextPages]_vars

\* the fetch of each page settles
SpecPagesFair == SpecPages /\ WF_vars(FetchPage)

----------------------------------------------------------------------------
\* testFilterQuery and parseErrorMessage of apiClient.js

\* what fetch does: it rejects, or resolves with a response
TransportFailure == [settled |-> "rejected"]
Response(status, statusText, body) ==
    [settled |-> "fulfilled", status |-> status, statusText |-> statusText, body |-> body]

\* response.ok
IsOk(response) == response.status >= 200 /\ response.status <= 299

\* a body that is not JSON: response.json() rejects
NOT_JSON == [t |-> "not JSON"]

\* the parsed body of an error: the properties parseErrorMessage reads
ErrorData(requestError, message, error) ==
    [t |-> "object", requestError |-> requestError, message |-> message, error |-> error]
ServiceException(messageId, text) ==
    [t |-> "object", serviceException |-> [t |-> "object", messageId |-> messageId, text |-> text]]
RequestErrorOnly == [t |-> "object", serviceException |-> Undefined]

MESSAGE_FALLBACK == "Request failed. Please check your filter syntax and API credentials."
MESSAGE_NETWORK == "Network error"
STATUS_TEXT_NETWORK == "Network Error"

\* parseErrorMessage throws: errorData is null, and .requestError is read of it
parseErrorMessageThrows(errorData) == errorData \in {Null, Undefined}

\* parseErrorMessage; `${text} (Error code: ${messageId})` is kept as its two parts
parseErrorMessage(errorData) ==
    IF Truthy(errorData.requestError) /\ Truthy(errorData.requestError.serviceException)
    THEN [text |-> errorData.requestError.serviceException.text,
          code |-> errorData.requestError.serviceException.messageId]
    ELSE IF Truthy(errorData.message) THEN errorData.message
    ELSE IF Truthy(errorData.error) THEN errorData.error
    ELSE Str(MESSAGE_FALLBACK)

\* the result of the catch block
NetworkErrorResult ==
    [success |-> FALSE, status |-> 0, statusText |-> STATUS_TEXT_NETWORK, data |-> Null,
     error |-> Str(MESSAGE_NETWORK)]

\* testFilterQuery, given what fetch did: a rejected fetch, a body that does
\* not parse and a throw of parseErrorMessage all end in the catch block
testFilterQuery(outcome) ==
    IF outcome.settled = "rejected" THEN NetworkErrorResult
    ELSE IF outcome.body = NOT_JSON THEN NetworkErrorResult
    ELSE IF ~IsOk(outcome) /\ parseErrorMessageThrows(outcome.body) THEN NetworkErrorResult
    ELSE [success |-> IsOk(outcome), status |-> outcome.status,
          statusText |-> outcome.statusText, data |-> outcome.body,
          error |-> IF IsOk(outcome) THEN Null ELSE parseErrorMessage(outcome.body)]

\* the bodies a response carries
ErrorBodies ==
    {ErrorData(r, m, e) :
        r \in {Undefined, RequestErrorOnly, ServiceException(Str(<<"c">>), Str(<<"t">>))},
        m \in {Undefined, Str(<<"m">>)},
        e \in {Undefined, Str(<<"e">>)}}
Bodies == ErrorBodies \cup {NOT_JSON, Null}

Statuses ==
    {<<200, "OK">>, <<400, "Bad Request">>, <<401, "Unauthorized">>, <<404, "Not Found">>,
     <<500, "Internal Server Error">>, <<502, "Bad Gateway">>}

TestOutcomes ==
    {TransportFailure} \cup {Response(s[1], s[2], b) : s \in Statuses, b \in Bodies}

InitTestQuery ==
    /\ testOutcome \in TestOutcomes
    /\ testResult = Null
    /\ baseUrl = <<>>
    /\ isLoadingAttributes = FALSE
    /\ isTestingQuery = FALSE
    /\ alert = Null
    /\ loadsInFlight = 0
    /\ testsInFlight = 0
    /\ testsIssued = {}
    /\ pc = "input"
    /\ CompilerIdle
    /\ OperatorsIdle
    /\ AppIdle
    /\ PagesIdle
    /\ EditorIdle

\* the call testFilterQuery(baseUrl, apiKey, encoded) and what it resolves with
TestFilterQuery ==
    /\ pc = "input"
    /\ testResult' = testFilterQuery(testOutcome)
    /\ pc' = "resolved"
    /\ UNCHANGED <<testOutcome, baseUrl, isLoadingAttributes, isTestingQuery, alert,
                   loadsInFlight, testsInFlight, testsIssued>>
    /\ UNCHANGED <<compilerVars, operatorVars, appVars, pageVars, now>>

NextTestQuery == TestFilterQuery

SpecTestQuery == InitTestQuery /\ [][NextTestQuery]_vars

----------------------------------------------------------------------------
\* A session of the App: clicks, edits and the arrival of the responses

\* the most handler calls of one kind awaiting their response
MaxInFlight == 2

\* ConfigSection: canLoadAttributes = baseUrl && apiKey && !isLoading
canLoadAttributes(url, key, isLoading) == url # <<>> /\ key # <<>> /\ ~isLoading

\* App: canTestQuery = attributesLoaded && conditions.length > 0 && rawFilter.length > 0
canTestQuery(loaded, conds, raw) == loaded /\ Len(conds) > 0 /\ Len(raw) > 0

\* the test button as it would be if it were enabled while a test is running
TestButtonEnabled_WhileTesting(canTest, isLoading) == canTest

\* the test button as it would be if it were enabled without a filter
TestButtonEnabled_WithoutFilter(canTest, isLoading) == ~isLoading

\* ResultsPanel: disabled={!canTest || isLoading}
TestButtonEnabled(canTest, isLoading) == ~(~canTest \/ isLoading)

\* what the user types into the two inputs
BaseUrls == {<<>>, <<" ">>, <<"a", "p", "i">>, DEFAULT_BASE_URL}
SessionKeys == {<<>>, <<" ">>, <<"k">>}

\* what the builder hands to setConditions: no condition, a condition as
\* addCondition makes it, a complete condition
SessionConditions ==
    {<<>>,
     <<Cond(Str(<<>>), Str(OP_EQ), Str(<<>>), Str(TYPE_STRING))>>,
     <<Cond(Str(F_A), Str(OP_EQ), Str(V_X), Str(TYPE_STRING))>>}

\* what the sources do in a session
SessionOutcomes ==
    {[standard |-> OUTCOME_SOME, custom |-> OUTCOME_SOME, lists |-> OUTCOME_SOME],
     [standard |-> OUTCOME_SOME, custom |-> OUTCOME_FAILS, lists |-> OUTCOME_FAILS],
     [standard |-> OUTCOME_FAILS, custom |-> OUTCOME_NONE, lists |-> OUTCOME_NONE]}

\* what fetch does for a test query in a session
SessionTestOutcomes ==
    {TransportFailure,
     Response(200, "OK", ErrorData(Undefined, Undefined, Undefined)),
     Response(400, "Bad Request", ErrorData(Undefined, Str(<<"m">>), Undefined))}

\* the state of App after its first render
InitSession ==
    /\ baseUrl = DEFAULT_BASE_URL
    /\ apiKey = <<>>
    /\ attributes = <<>>
    /\ attributesLoaded = FALSE
    /\ isLoadingAttributes = FALSE
    /\ attributeError = Null
    /\ conditions = <<>>
    /\ filterLogic = Str(LOGIC_AND)
    /\ testResult = Null
    /\ isTestingQuery = FALSE
    /\ rawFilter = <<>>
    /\ encodedFilter = <<>>
    /\ alert = Null
    /\ loadsInFlight = 0
    /\ testsInFlight = 0
    /\ testsIssued = {}
    /\ requests = {}
    /\ fetcher \in Fetchers
    /\ sourceOutcome = Undefined
    /\ fetchResult = Undefined
    /\ testOutcome = Undefined
    /\ cleanApiKey = <<>>
    /\ validConditions = Undefined
    /\ filterConditions = Undefined
    /\ pc = "session"
    /\ fieldName = <<>> /\ attributeType = <<>> /\ operators = <<>>
    /\ PagesIdle
    /\ EditorIdle

sessionFrame == <<pc, cleanApiKey, fetcher, validConditions, filterConditions, filterLogic,
                  fieldName, attributeType, operators, pageVars, now>>

\* the base URL input, disabled while the attributes load
SetBaseUrl ==
    /\ ~isLoadingAttributes
    /\ \E url \in BaseUrls : baseUrl' = url
    /\ alert' = Null
    /\ UNCHANGED <<apiKey, attributes, attributesLoaded, isLoadingAttributes, attributeError,
                   conditions, rawFilter, encodedFilter, testResult, isTestingQuery,
                   loadsInFlight, testsInFlight, testsIssued, requests, sourceOutcome,
                   fetchResult, testOutcome, sessionFrame>>

\* the API key input, disabled while the attributes load
SetApiKey ==
    /\ ~isLoadingAttributes
    /\ \E key \in SessionKeys : apiKey' = key
    /\ alert' = Null
    /\ UNCHANGED <<baseUrl, attributes, attributesLoaded, isLoadingAttributes, attributeError,
                   conditions, rawFilter, encodedFilter, testResult, isTestingQuery,
                   loadsInFlight, testsInFlight, testsIssued, requests, sourceOutcome,
                   fetchResult, testOutcome, sessionFrame>>

\* the builder's setConditions, rendered once attributes are loaded; the
\* render computes the filter of the new conditions (App.jsx line 95)
SetConditions ==
    /\ attributesLoaded
    /\ Len(attributes) > 0
    /\ \E conds \in SessionConditions :
          /\ conditions' = conds
          /\ rawFilter' = buildAndEncodeFilter(conds, filterLogic).raw
          /\ encodedFilter' = buildAndEncodeFilter(conds, filterLogic).encoded
    /\ alert' = Null
    /\ UNCHANGED <<baseUrl, apiKey, attributes, attributesLoaded, isLoadingAttributes,
                   attributeError, testResult, isTestingQuery, loadsInFlight, testsInFlight,
                   testsIssued, requests, sourceOutcome, fetchResult, testOutcome,
                   sessionFrame>>

\* a click on Connect: handleLoadAttributes up to its await; the sources are
\* asked before the handler yields
ClickConnect ==
    /\ canLoadAttributes(baseUrl, apiKey, isLoadingAttributes)
    /\ loadsInFlight < MaxInFlight
    /\ IF ~validateApiConfig(baseUrl, apiKey).isValid
       THEN /\ alert' = Arr(validateApiConfig(baseUrl, apiKey).errors)
            /\ UNCHANGED <<isLoadingAttributes, attributeError, loadsInFlight, requests>>
       ELSE /\ isLoadingAttributes' = TRUE
            /\ attributeError' = Null
            /\ loadsInFlight' = loadsInFlight + 1
            /\ requests' = requests \cup FetchRequests(fetcher, apiKey)
            /\ alert' = Null
    /\ UNCHANGED <<baseUrl, apiKey, attributes, attributesLoaded, conditions, rawFilter,
                   encodedFilter, testResult, isTestingQuery, testsInFlight, testsIssued,
                   sourceOutcome, fetchResult, testOutcome, sessionFrame>>

\* fetchAllAttributes settles: the rest of handleLoadAttributes
LoadSettles ==
    /\ loadsInFlight > 0
    /\ \E outcome \in SessionOutcomes :
          LET result == fetchAllAttributes(fetcher, outcome)
          IN /\ sourceOutcome' = outcome
             /\ fetchResult' = result
             /\ IF result.status = "fulfilled"
                THEN /\ attributes' = result.attributes
                     /\ attributesLoaded' = TRUE
                     /\ attributeError' =
                           IF Truthy(result.errors)
                           THEN [message |-> ERROR_PARTIAL, errors |-> result.errors.a]
                           ELSE attributeError
                ELSE /\ attributeError' = [message |-> ERROR_FAILED, errors |-> result.details]
                     /\ attributesLoaded' = FALSE
                     /\ UNCHANGED attributes
    /\ isLoadingAttributes' = FALSE
    /\ loadsInFlight' = loadsInFlight - 1
    /\ alert' = Null
    /\ UNCHANGED <<baseUrl, apiKey, conditions, rawFilter, encodedFilter, testResult,
                   isTestingQuery, testsInFlight, testsIssued, requests, testOutcome,
                   sessionFrame>>

\* a click on Test Query: handleTestQuery up to its await; the request is
\* sent before the handler yields
ClickTest ==
    /\ attributesLoaded
    /\ TestButtonEnabled(canTestQuery(attributesLoaded, conditions, rawFilter), isTestingQuery)
    /\ testsInFlight < MaxInFlight
    /\ IF ~validateApiConfig(baseUrl, apiKey).isValid
       THEN /\ alert' = Arr(validateApiConfig(baseUrl, apiKey).errors)
            /\ UNCHANGED <<isTestingQuery, testResult, testsInFlight, testsIssued, requests>>
       ELSE /\ isTestingQuery' = TRUE
            /\ testResult' = Null
            /\ testsInFlight' = testsInFlight + 1
            /\ testsIssued' = testsIssued \cup
                  {[attributesLoaded |-> attributesLoaded,
                    encoded |-> buildAndEncodeFilter(conditions, filterLogic).encoded]}
            /\ requests' = requests \cup {TestRequest(apiKey)}
            /\ alert' = Null
    /\ UNCHANGED <<baseUrl, apiKey, attributes, attributesLoaded, isLoadingAttributes,
                   attributeError, conditions, rawFilter, encodedFilter, loadsInFlight,
                   sourceOutcome, fetchResult, testOutcome, sessionFrame>>

\* testFilterQuery resolves: the rest of handleTestQuery
TestSettles ==
    /\ testsInFlight > 0
    /\ \E outcome \in SessionTestOutcomes :
          /\ testOutcome' = outcome
          /\ testResult' = testFilterQuery(outcome)
    /\ isTestingQuery' = FALSE
    /\ testsInFlight' = testsInFlight - 1
    /\ alert' = Null
    /\ UNCHANGED <<baseUrl, apiKey, attributes, attributesLoaded, isLoadingAttributes,
                   attributeError, conditions, rawFilter, encodedFilter, loadsInFlight,
                   testsIssued, requests, sourceOutcome, fetchResult, sessionFrame>>

NextSession ==
    \/ SetBaseUrl
    \/ SetApiKey
    \/ SetConditions
    \/ ClickConnect
    \/ LoadSettles
    \/ ClickTest
    \/ TestSettles

SpecSession == InitSession /\ [][NextSession]_vars

\* every fetch settles
SpecSessionFair == SpecSession /\ WF_vars(LoadSettles) /\ WF_vars(TestSettles)

----------------------------------------------------------------------------
\* The filter builder: the rows of the conditions and their edits

\* the most conditions, the most conditions and item-conditions together,
\* and the last tick of the clock
MaxRows == 2
MaxAllRows == 3
MaxClock == 2

\* an attribute as the fetcher returns it; a property it does not set is Undefined
Attribute(name, type, isList, schema, enumValues) ==
    [name |-> name, type |-> type, isList |-> isList, schema |-> schema,
     enumValues |-> enumValues]

ENUM_MALE == <<"M", "A", "L", "E">>
EmptySchema == [t |-> "object", m |-> <<>>]

\* the loaded attributes of the session: standard ones of type string, enum
\* and array, a custom boolean and a list
LoadedAttributes ==
    <<Attribute(FIELD_ID, TYPE_STRING, Undefined, Undefined, Undefined),
      Attribute(FIELD_GENDER, TYPE_ENUM, Undefined, Undefined, Arr(<<ENUM_MALE>>)),
      Attribute(FIELD_TAGS, TYPE_ARRAY, Undefined, Undefined, Undefined),
      Attribute(FIELD_CUSTOM_X, TYPE_BOOLEAN, Bool(FALSE), EmptySchema, Undefined),
      Attribute(FIELD_LIST, TYPE_LIST, Bool(TRUE), ItemSchema, Undefined)>>

\* the object literal of addCondition
NewCondition(id) ==
    [id |-> id, field |-> Str(<<>>), operator |-> Str(OP_EQ), value |-> Str(<<>>),
     fieldType |-> Str(TYPE_STRING), isList |-> Undefined, listMode |-> Undefined,
     listLogic |-> Undefined, listConditions |-> Undefined, schema |-> Undefined]

\* the object literal of addListCondition
NewListCondition(id) ==
    [id |-> id, field |-> Str(<<>>), operator |-> Str(OP_EQ), value |-> Str(<<>>)]

\* what setConditions receives from addCondition
addCondition(conds, id) == Append(conds, NewCondition(id))

\* what setConditions receives from removeCondition(id)
removeCondition(conds, id) ==
    LET Kept(c) == c.id # id
    IN SelectSeq(conds, Kept)

\* `wasListOperator !== isListOperator`
SwitchesListOperator(operator, value) ==
    (operator = Str(OP_IN) \/ operator = Str(OP_NOT_IN))
        # (value = Str(OP_IN) \/ value = Str(OP_NOT_IN))

\* the callback of conditions.map for the row with the id: `updated`
UpdatedCondition(c, attrs, field, value) ==
    LET updated == [c EXCEPT ![field] = value]
        attribute == IF IsStr(value) THEN FindAttribute(attrs, value.s) ELSE Undefined
        afterField ==
            IF field = "field" /\ Truthy(value)
            THEN IF attribute # Undefined
                 THEN IF attribute.type = TYPE_LIST \/ Truthy(attribute.isList)
                      THEN [updated EXCEPT !.fieldType = Str(TYPE_LIST),
                                           !.schema = attribute.schema,
                                           !.listMode = Str(MODE_ANY),
                                           !.listLogic = Str(LOGIC_AND),
                                           !.listConditions = Arr(<<>>),
                                           !.operator = Null,
                                           !.value = Str(<<>>)]
                      ELSE [updated EXCEPT !.fieldType = Str(attribute.type),
                                           !.operator = Str(OP_EQ),
                                           !.value = Str(<<>>),
                                           !.listMode = Undefined,
                                           !.listLogic = Undefined,
                                           !.listConditions = Undefined,
                                           !.schema = Undefined]
                 ELSE [updated EXCEPT !.fieldType = Str(TYPE_STRING),
                                      !.operator = Str(OP_EQ),
                                      !.value = Str(<<>>)]
            ELSE updated
    IN IF field = "operator" /\ SwitchesListOperator(c.operator, value)
       THEN [afterField EXCEPT !.value = Str(<<>>)]
       ELSE afterField

\* what setConditions receives from updateCondition(id, field, value)
updateCondition(conds, attrs, id, field, value) ==
    [i \in 1..Len(conds) |->
        IF conds[i].id = id THEN UpdatedCondition(conds[i], attrs, field, value)
        ELSE conds[i]]

\* parseValue(value, attributeType, operator); value is the text of the
\* control, typeOfAttribute the argument attributeType: a string or Undefined
parseValue(value, typeOfAttribute, operator) ==
    IF ~Truthy(typeOfAttribute) THEN Str(value)
    ELSE LET type == ToLowerCase(typeOfAttribute.s)
         IN IF operator = Str(OP_IN) \/ operator = Str(OP_NOT_IN) THEN Str(value)
            ELSE IF type = TYPE_INTEGER THEN ParseIntItem(value)
            ELSE IF type = TYPE_DECIMAL \/ type = TYPE_NUMBER THEN ParseFloatItem(value)
            ELSE IF type = TYPE_BOOLEAN THEN ParseBooleanItem(value)
            ELSE Str(value)

\* selectedAttribute of a row
selectedAttribute(attrs, condition) == FindAttribute(attrs, condition.field.s)

\* selectedAttribute?.type as a value
SelectedType(attrs, condition) ==
    IF selectedAttribute(attrs, condition) = Undefined THEN Undefined
    ELSE Str(selectedAttribute(attrs, condition).type)

\* isList of a row: the list controls are rendered instead of operator and value
IsListRow(attrs, condition) ==
    \/ condition.fieldType = Str(TYPE_LIST)
    \/ /\ selectedAttribute(attrs, condition) # Undefined
       /\ \/ selectedAttribute(attrs, condition).type = TYPE_LIST
          \/ Truthy(selectedAttribute(attrs, condition).isList)

\* `condition.listConditions || []`
ListConditionsOf(condition) ==
    IF Truthy(condition.listConditions) THEN condition.listConditions.a ELSE <<>>

RECURSIVE ItemRows(_)
\* the number of item-conditions of all rows
ItemRows(conds) ==
    IF conds = <<>> THEN 0 ELSE Len(ListConditionsOf(Head(conds))) + ItemRows(Tail(conds))

\* the option a select shows for a value: the value when it is an option,
\* otherwise the first option
Shown(value, options) == IF Includes(options, value) THEN value ELSE options[1]

\* the values of the options of the operator select of a row
OfferedOperators(attrs, condition) ==
    LET offered == getOperatorsForAttribute(attrs, condition.field.s)
    IN [i \in 1..Len(offered) |-> offered[i].value]

\* the options of the field select: the placeholder and every attribute
FieldOptions(attrs) == <<<<>>>> \o [i \in 1..Len(attrs) |-> attrs[i].name]

\* the options of the operator select of an item-condition
ItemOperatorOptions == <<OP_EQ, OP_NE, OP_CONTAINS, OP_GT, OP_LT, OP_IN, OP_NOT_IN>>

\* the options of a boolean value select
BooleanOptions == <<<<>>, <<"t", "r", "u", "e">>, <<"f", "a", "l", "s", "e">>>>

\* `condition.schema || selectedAttribute?.schema || {}`
ListSchema(attrs, condition) ==
    IF Truthy(condition.schema) THEN condition.schema
    ELSE IF selectedAttribute(attrs, condition) # Undefined
            /\ Truthy(selectedAttribute(attrs, condition).schema)
    THEN selectedAttribute(attrs, condition).schema
    ELSE EmptySchema

\* the options of the field select of an item-condition: the placeholder
\* and every property of the schema
ItemFieldOptions(attrs, condition) ==
    LET listSchema == ListSchema(attrs, condition)
    IN <<<<>>>> \o [i \in 1..Len(listSchema.m) |-> listSchema.m[i].k]

\* what the user types into a value input
ValueTexts == {<<>>, V_X}
\* the operators, the item properties and the item operators the user picks
\* among those offered
OperatorsPicked == {OP_EQ, OP_CONTAINS, OP_IN}
ItemFieldsPicked == {<<>>, F_ITEM_C}
ItemOperatorsPicked == {OP_EQ, OP_IN}

\* the texts the value control of a flat row can report
ValueChoices(attrs, condition) ==
    LET attribute == selectedAttribute(attrs, condition)
    IN IF attribute = Undefined THEN ValueTexts
       ELSE IF ToLowerCase(attribute.type) = TYPE_BOOLEAN
       THEN {BooleanOptions[i] : i \in 1..Len(BooleanOptions)}
       ELSE IF attribute.type = TYPE_ENUM /\ Truthy(attribute.enumValues)
       THEN {<<>>} \cup {attribute.enumValues.a[i] : i \in 1..Len(attribute.enumValues.a)}
       ELSE ValueTexts

\* the value the onChange of the value control of a flat row hands to onUpdate
EnteredValue(attrs, condition, text) ==
    LET attribute == selectedAttribute(attrs, condition)
    IN IF attribute # Undefined /\ ToLowerCase(attribute.type) # TYPE_BOOLEAN
          /\ attribute.type = TYPE_ENUM /\ Truthy(attribute.enumValues)
       THEN Str(text)
       ELSE parseValue(text, SelectedType(attrs, condition), condition.operator)

\* the texts the value control of an item-condition can report
ItemValueChoices(attrs, condition, listCond) ==
    LET type == SchemaType(ListSchema(attrs, condition), listCond.field.s)
    IN IF IsStr(type) /\ ToLowerCase(type.s) = TYPE_BOOLEAN
       THEN {BooleanOptions[i] : i \in 1..Len(BooleanOptions)}
       ELSE ValueTexts

\* the state of FilterBuilder when the attributes have been loaded
InitEditor ==
    /\ pc = "editing"
    /\ conditions = <<>>
    /\ filterLogic = Str(LOGIC_AND)
    /\ attributes = LoadedAttributes
    /\ attributesLoaded = TRUE
    /\ rawFilter = <<>>
    /\ encodedFilter = <<>>
    /\ now = 1
    /\ validConditions = Undefined
    /\ filterConditions = Undefined
    /\ fieldName = <<>> /\ attributeType = <<>> /\ operators = <<>>
    /\ apiKey = <<"k">>
    /\ cleanApiKey = <<>>
    /\ requests = {}
    /\ fetcher = FETCHER_WITH_LISTS
    /\ sourceOutcome = [standard |-> OUTCOME_SOME, custom |-> OUTCOME_SOME, lists |-> OUTCOME_SOME]
    /\ fetchResult = Undefined
    /\ attributeError = Null
    /\ PagesIdle
    /\ SessionIdle

editorFrame == <<pc, attributes, filterLogic, validConditions, filterConditions, rawFilter,
                 encodedFilter, fieldName, attributeType, operators, appVars, pageVars,
                 sessionVars>>

\* setConditions(conds)
Edit(conds) ==
    /\ conditions' = conds
    /\ UNCHANGED <<now, editorFrame>>

\* the clock of the browser moves on between two events, or does not
Tick ==
    /\ pc = "editing"
    /\ now < MaxClock
    /\ now' = now + 1
    /\ UNCHANGED <<conditions, editorFrame>>

\* the button "+ Add Condition"
AddCondition ==
    /\ pc = "editing"
    /\ Len(attributes) > 0
    /\ Len(conditions) < MaxRows
    /\ Len(conditions) + ItemRows(conditions) < MaxAllRows
    /\ Edit(addCondition(conditions, now))

\* the delete button of a row
RemoveCondition ==
    /\ pc = "editing"
    /\ \E i \in 1..Len(conditions) : Edit(removeCondition(conditions, conditions[i].id))

\* the field select of a row
SelectField ==
    /\ pc = "editing"
    /\ \E i \in 1..Len(conditions) :
        \E k \in 1..Len(FieldOptions(attributes)) :
            LET option == FieldOptions(attributes)[k]
            IN /\ option # Shown(conditions[i].field.s, FieldOptions(attributes))
               /\ Edit(updateCondition(conditions, attributes, conditions[i].id, "field",
                                       Str(option)))

\* the operator select of a flat row
SelectOperator ==
    /\ pc = "editing"
    /\ \E i \in 1..Len(conditions) :
        /\ ~IsListRow(attributes, conditions[i])
        /\ \E k \in 1..Len(OfferedOperators(attributes, conditions[i])) :
            LET options == OfferedOperators(attributes, conditions[i])
                held == IF IsStr(conditions[i].operator) THEN conditions[i].operator.s
                        ELSE <<>>
            IN /\ options[k] \in OperatorsPicked
               /\ options[k] # Shown(held, options)
               /\ Edit(updateCondition(conditions, attributes, conditions[i].id, "operator",
                                       Str(options[k])))

\* the value control of a flat row, not rendered for #exists and #notExist
EnterValue ==
    /\ pc = "editing"
    /\ \E i \in 1..Len(conditions) :
        /\ ~IsListRow(attributes, conditions[i])
        /\ conditions[i].operator # Str(OP_EXISTS)
        /\ conditions[i].operator # Str(OP_NOT_EXIST)
        /\ \E text \in ValueChoices(attributes, conditions[i]) :
            Edit(updateCondition(conditions, attributes, conditions[i].id, "value",
                                 EnteredValue(attributes, conditions[i], text)))

\* the mode select of a list row
SelectListMode ==
    /\ pc = "editing"
    /\ \E i \in 1..Len(conditions) :
        /\ IsListRow(attributes, conditions[i])
        /\ \E mode \in {MODE_ANY, MODE_ALL} :
            /\ Str(mode) # (IF Truthy(conditions[i].listMode) THEN conditions[i].listMode
                            ELSE Str(MODE_ANY))
            /\ Edit(updateCondition(conditions, attributes, conditions[i].id, "listMode",
                                    Str(mode)))

\* the logic select of a list row, rendered from two item-conditions on
SelectListLogic ==
    /\ pc = "editing"
    /\ \E i \in 1..Len(conditions) :
        /\ IsListRow(attributes, conditions[i])
        /\ Len(ListConditionsOf(conditions[i])) >= 2
        /\ \E logic \in {LOGIC_AND, LOGIC_OR} :
            /\ Str(logic) # (IF Truthy(conditions[i].listLogic) THEN conditions[i].listLogic
                             ELSE Str(LOGIC_AND))
            /\ Edit(updateCondition(conditions, attributes, conditions[i].id, "listLogic",
                                    Str(logic)))

\* addListCondition: the button "+ Add Item Condition" of a list row
AddListCondition ==
    /\ pc = "editing"
    /\ \E i \in 1..Len(conditions) :
        /\ IsListRow(attributes, conditions[i])
        /\ Len(conditions) + ItemRows(conditions) < MaxAllRows
        /\ Edit(updateCondition(conditions, attributes, conditions[i].id, "listConditions",
                    Arr(Append(ListConditionsOf(conditions[i]), NewListCondition(now)))))

\* removeListCondition(listCondId): the delete button of an item-condition
RemoveListCondition ==
    /\ pc = "editing"
    /\ \E i \in 1..Len(conditions) :
        /\ IsListRow(attributes, conditions[i])
        /\ \E j \in 1..Len(ListConditionsOf(conditions[i])) :
            LET listConditions == ListConditionsOf(conditions[i])
                Kept(c) == c.id # listConditions[j].id
            IN Edit(updateCondition(conditions, attributes, conditions[i].id,
                                    "listConditions", Arr(SelectSeq(listConditions, Kept))))

\* the callback of listConditions.map of updateListCondition
UpdatedListCondition(c, field, value) ==
    LET updated == [c EXCEPT ![field] = value]
    IN IF field = "operator" /\ SwitchesListOperator(c.operator, value)
       THEN [updated EXCEPT !.value = Str(<<>>)]
       ELSE updated

\* what onUpdate receives from updateListCondition(listCondId, field, value)
updateListCondition(listConditions, listCondId, field, value) ==
    [j \in 1..Len(listConditions) |->
        IF listConditions[j].id = listCondId
        THEN UpdatedListCondition(listConditions[j], field, value)
        ELSE listConditions[j]]

\* the three controls of an item-condition: property, operator, value
UpdateListCondition ==
    /\ pc = "editing"
    /\ \E i \in 1..Len(conditions) :
        /\ IsListRow(attributes, conditions[i])
        /\ \E j \in 1..Len(ListConditionsOf(conditions[i])) :
            LET listConditions == ListConditionsOf(conditions[i])
                listCond == listConditions[j]
                Update(field, value) ==
                    Edit(updateCondition(conditions, attributes, conditions[i].id,
                            "listConditions",
                            Arr(updateListCondition(listConditions, listCond.id, field, value))))
            IN \/ \E k \in 1..Len(ItemFieldOptions(attributes, conditions[i])) :
                    LET option == ItemFieldOptions(attributes, conditions[i])[k]
                    IN /\ option \in ItemFieldsPicked
                       /\ option # Shown(listCond.field.s,
                                         ItemFieldOptions(attributes, conditions[i]))
                       /\ Update("field", Str(option))
               \/ \E k \in 1..Len(ItemOperatorOptions) :
                    /\ ItemOperatorOptions[k] \in ItemOperatorsPicked
                    /\ ItemOperatorOptions[k] # Shown(listCond.operator.s, ItemOperatorOptions)
                    /\ Update("operator", Str(ItemOperatorOptions[k]))
               \/ \E text \in ItemValueChoices(attributes, conditions[i], listCond) :
                    Update("value",
                           parseValue(text,
                                      SchemaType(ListSchema(attributes, conditions[i]),
                                                 listCond.field.s),
                                      listCond.operator))

NextEditor ==
    \/ Tick
    \/ AddCondition
    \/ RemoveCondition
    \/ SelectField
    \/ SelectOperator
    \/ EnterValue
    \/ SelectListMode
    \/ SelectListLogic
    \/ AddListCondition
    \/ RemoveListCondition
    \/ UpdateListCondition

SpecEditor == InitEditor /\ [][NextEditor]_vars

----------------------------------------------------------------------------
\* Vocabulary of the properties, stated on the inputs and not through the
\* compiler's own predicates

Done == pc = "done"

NonEmptyString(v) == v.t = "string" /\ v.s # <<>>
\* a value that is neither undefined nor the empty string
ValuePresent(v) == v # Undefined /\ v # Str(<<>>)
IsListCondition(c) == c.fieldType = Str(TYPE_LIST)
IsExistenceOperator(o) == o \in {Str(OP_EXISTS), Str(OP_NOT_EXIST)}
IsInOperator(o) == o \in {Str(OP_IN), Str(OP_NOT_IN)}

FlatComplete(c) ==
    /\ NonEmptyString(c.field)
    /\ NonEmptyString(c.operator)
    /\ ValuePresent(c.value) \/ IsExistenceOperator(c.operator)

ItemComplete(lc) ==
    NonEmptyString(lc.field) /\ NonEmptyString(lc.operator) /\ ValuePresent(lc.value)

ListComplete(c) ==
    /\ NonEmptyString(c.field)
    /\ c.listConditions # Undefined
    /\ \E j \in 1..Len(c.listConditions.a) : ItemComplete(c.listConditions.a[j])

Complete(c) == IF IsListCondition(c) THEN ListComplete(c) ELSE FlatComplete(c)

\* the indices of the complete conditions of the input
Survivors == {i \in 1..Len(conditions) : Complete(conditions[i])}

\* the conditions without the i-th
RemoveAt(seq, i) == SubSeq(seq, 1, i - 1) \o SubSeq(seq, i + 1, Len(seq))

\* the number of nodes a call produced (0 when it returned before the map)
NodeCount(nodes) == IF nodes = Undefined THEN 0 ELSE Len(nodes.a)

\* whether text begins with prefix
StartsWith(text, prefix) ==
    Len(text) >= Len(prefix) /\ SubSeq(text, 1, Len(prefix)) = prefix

EmptyObjectText == <<"{", "}">>
AndWrapperOpen == <<"{", "\"", "#", "a", "n", "d", "\"", ":", "[">>
OrWrapperOpen == <<"{", "\"", "#", "o", "r", "\"", ":", "[">>
WrapperClose == <<"]", "}">>

\* C1: when no condition of the FilterSet is complete (any length, either
\* logic), the call returns raw = "" and encoded = ""; the raw text is never
\* "{}" nor an empty #and/#or wrapper.
C1_NoCompleteConditionGivesEmpty ==
    Done =>
        /\ Survivors = {} => rawFilter = <<>> /\ encodedFilter = <<>>
        /\ rawFilter # EmptyObjectText
        /\ rawFilter # AndWrapperOpen \o WrapperClose
        /\ rawFilter # OrWrapperOpen \o WrapperClose

\* a FilterSet of several conditions, flat and list, none complete, compiled
C1_Witness ==
    /\ Done
    /\ Len(conditions) >= 2
    /\ Survivors = {}
    /\ \E i \in 1..Len(conditions) : IsListCondition(conditions[i])
    /\ \E i \in 1..Len(conditions) : ~IsListCondition(conditions[i])
    /\ rawFilter = <<>>
    /\ encodedFilter = <<>>

\* C2: a flat condition contributes a node exactly when its field and
\* operator are non-empty and its value is present or its operator is
\* #exists/#notExist; any other flat condition is dropped, and the text is the
\* one compiled from the input without it.
C2_FlatConditionContributesIffComplete ==
    Done =>
        \A i \in 1..Len(conditions) :
            ~IsListCondition(conditions[i]) =>
                LET without == buildFilterStringLocals(RemoveAt(conditions, i), filterLogic)
                IN /\ FlatComplete(conditions[i])
                        <=> NodeCount(filterConditions) = NodeCount(without.nodes) + 1
                   /\ ~FlatComplete(conditions[i])
                        => /\ rawFilter = without.raw
                           /\ NodeCount(filterConditions) = NodeCount(without.nodes)

\* an incomplete flat condition between two complete ones was dropped, and a
\* flat condition whose value is false or 0 contributed a node
C2_Witness ==
    /\ Done
    /\ Len(conditions) = 3
    /\ ~IsListCondition(conditions[2]) /\ ~FlatComplete(conditions[2])
    /\ Complete(conditions[1]) /\ Complete(conditions[3])
    /\ \E i \in {1, 3} : conditions[i].value = Bool(FALSE)
    /\ NodeCount(filterConditions) = 2

RECURSIVE JoinTexts(_, _)
\* the texts of a sequence joined with a separator, left to right
JoinTexts(texts, sep) ==
    IF Len(texts) = 0 THEN <<>>
    ELSE IF Len(texts) = 1 THEN texts[1]
    ELSE JoinTexts(SubSeq(texts, 1, Len(texts) - 1), sep) \o sep \o texts[Len(texts)]

\* the i-th smallest element of a finite set of numbers
NthOf(set, n) == CHOOSE x \in set : Cardinality({y \in set : y <= x}) = n

\* the text each surviving condition compiles to on its own, in input order
SurvivorTexts ==
    [n \in 1..Cardinality(Survivors) |->
        buildFilterString(<<conditions[NthOf(Survivors, n)]>>, Undefined)]

\* C3: with one surviving condition the raw text is that condition's node,
\* without wrapper, whatever the logic; with two or more it is one object whose
\* key is #or for logic 'or' and #and otherwise, holding the nodes in the
\* order of the surviving conditions in the input.
C3_CombinationStep ==
    Done =>
        /\ Cardinality(Survivors) = 1
            => /\ rawFilter = SurvivorTexts[1]
               /\ ~StartsWith(rawFilter, AndWrapperOpen)
               /\ ~StartsWith(rawFilter, OrWrapperOpen)
        /\ Cardinality(Survivors) >= 2
            => rawFilter =
                  (IF filterLogic = Str(LOGIC_OR) THEN OrWrapperOpen ELSE AndWrapperOpen)
                      \o JoinTexts(SurvivorTexts, <<",">>) \o WrapperClose

\* three conditions under 'or', the middle one dropped, the two others
\* different and wrapped in input order
C3_Witness ==
    /\ Done
    /\ Len(conditions) = 3
    /\ Survivors = {1, 3}
    /\ conditions[1] # conditions[3]
    /\ filterLogic = Str(LOGIC_OR)
    /\ StartsWith(rawFilter, OrWrapperOpen)

\* one survivor among several conditions, compiled without wrapper
C3_WitnessSingle ==
    /\ Done
    /\ Len(conditions) = 3
    /\ Cardinality(Survivors) = 1
    /\ filterLogic = Str(LOGIC_OR)
    /\ rawFilter # <<>>

----------------------------------------------------------------------------
\* The node of a surviving condition, and the shape of a nested path

\* the position among the nodes of the node of the surviving condition i
Rank(i) == Cardinality({j \in Survivors : j <= i})
HasNode(i) ==
    i \in Survivors /\ filterConditions # Undefined /\ Rank(i) <= Len(filterConditions.a)
NodeAt(i) == filterConditions.a[Rank(i)]

\* 1 + the number of dots of a field
SegmentCount(field) == Cardinality({i \in 1..Len(field) : field[i] = "."}) + 1

RECURSIVE WellNested(_, _)
\* node is an object, whose value is an object, ... k levels deep
WellNested(node, k) == k = 0 \/ (node.t = "object" /\ WellNested(node.v, k - 1))

RECURSIVE PathKeys(_, _)
\* the keys of the k outermost levels of node, outermost first
PathKeys(node, k) == IF k = 0 THEN <<>> ELSE <<node.k>> \o PathKeys(node.v, k - 1)

RECURSIVE LeafAt(_, _)
\* what lies under the k outermost levels of node
LeafAt(node, k) == IF k = 0 THEN node ELSE LeafAt(node.v, k - 1)

\* node is the nested-path object of field with this leaf: one level per
\* segment, the keys are the segments in order, the leaf is under the last
IsNestedPath(node, field, leaf) ==
    LET k == SegmentCount(field)
    IN /\ WellNested(node, k)
       /\ JoinTexts(PathKeys(node, k), <<".">>) = field
       /\ \A j \in 1..k : \A n \in 1..Len(PathKeys(node, k)[j]) : PathKeys(node, k)[j][n] # "."
       /\ LeafAt(node, k) = leaf

IsScalarCondition(c) == c.fieldType \notin {Str(TYPE_ARRAY), Str(TYPE_LIST)}

\* {"a":{"b":{"c":"x"}}}
NestedEqText ==
    <<"{", "\"", "a", "\"", ":", "{", "\"", "b", "\"", ":", "{", "\"", "c", "\"", ":",
      "\"", "x", "\"", "}", "}", "}">>

\* C4: a scalar condition with #eq compiles to the nested-path object of its
\* field, without operator wrapper: one level and one key per dot-separated
\* segment, the value under the deepest one.
C4_ScalarEqIsNestedPath ==
    Done =>
        /\ \A i \in 1..Len(conditions) :
              LET c == conditions[i]
              IN IsScalarCondition(c) /\ FlatComplete(c) /\ c.operator = Str(OP_EQ)
                    => HasNode(i) /\ IsNestedPath(NodeAt(i), c.field.s, c.value)
        /\ conditions = <<Cond(Str(F_ABC), Str(OP_EQ), Str(V_X), Str(TYPE_STRING))>>
              => rawFilter = NestedEqText

\* a.b.c #eq "x" on a string field compiled to three nested levels
C4_Witness ==
    /\ Done
    /\ conditions = <<Cond(Str(F_ABC), Str(OP_EQ), Str(V_X), Str(TYPE_STRING))>>
    /\ SegmentCount(conditions[1].field.s) = 3
    /\ rawFilter = NestedEqText

\* C5: a scalar condition whose operator is none of #eq, #in, #notIn, #exists,
\* #notExist compiles to {operator: nested path of the field}, the operator
\* outermost and the value unchanged as the leaf.
C5_ScalarOperatorWrapsNestedPath ==
    Done =>
        \A i \in 1..Len(conditions) :
            LET c == conditions[i]
            IN /\ IsScalarCondition(c)
               /\ FlatComplete(c)
               /\ c.operator # Str(OP_EQ)
               /\ ~IsInOperator(c.operator)
               /\ ~IsExistenceOperator(c.operator)
               => /\ HasNode(i)
                  /\ NodeAt(i).t = "object"
                  /\ NodeAt(i).k = c.operator.s
                  /\ IsNestedPath(NodeAt(i).v, c.field.s, c.value)

\* a.b #gt 30 on an integer field compiled with #gt outermost and 30 as leaf
C5_Witness ==
    /\ Done
    /\ Len(conditions) >= 2
    /\ \E i \in 1..Len(conditions) :
          /\ conditions[i] = Cond(Str(F_AB), Str(OP_GT), Int_(30), Str(TYPE_INTEGER))
          /\ HasNode(i)
          /\ NodeAt(i) = Obj(OP_GT, Obj(<<"a">>, Obj(<<"b">>, Int_(30))))

\* C6: a condition with #exists or #notExist compiles to {operator: nested
\* path of the field with leaf true} for every field type, arrays included,
\* and for every value: conditions that differ only in value compile alike.
C6_ExistenceIgnoresValue ==
    Done =>
        \A i \in 1..Len(conditions) :
            LET c == conditions[i]
            IN IsExistenceOperator(c.operator) /\ NonEmptyString(c.field) /\ ~IsListCondition(c)
                  => /\ HasNode(i)
                     /\ NodeAt(i).t = "object"
                     /\ NodeAt(i).k = c.operator.s
                     /\ IsNestedPath(NodeAt(i).v, c.field.s, Bool(TRUE))
                     /\ \A v \in FlatValues :
                           rawFilter =
                              buildFilterString([conditions EXCEPT ![i].value = v], filterLogic)

\* #notExist on an array field that carries a value compiled to leaf true
C6_Witness ==
    /\ Done
    /\ Len(conditions) = 1
    /\ conditions[1].operator = Str(OP_NOT_EXIST)
    /\ conditions[1].fieldType = Str(TYPE_ARRAY)
    /\ conditions[1].value = Str(V_X)
    /\ conditions[1].field = Str(F_AB)
    /\ filterConditions = Arr(<<Obj(OP_NOT_EXIST, Obj(<<"a">>, Obj(<<"b">>, Bool(TRUE))))>>)

\* the places of the commas of a text, with 0 in front
SegmentStarts(s) == {0} \cup {i \in 1..Len(s) : s[i] = ","}
\* the segment that begins after place b: up to the next comma or the end
SegmentAfter(s, b) ==
    LET later == {i \in (b + 1)..Len(s) : s[i] = ","}
        e == IF later = {} THEN Len(s) + 1 ELSE CHOOSE x \in later : \A y \in later : x <= y
    IN SubSeq(s, b + 1, e - 1)
\* a text without the white space around it
Stripped(seg) ==
    LET keep == {i \in 1..Len(seg) : seg[i] \notin {" ", "\t", "\n", "\r"}}
    IN IF keep = {} THEN <<>>
       ELSE SubSeq(seg, CHOOSE x \in keep : \A y \in keep : x <= y,
                        CHOOSE x \in keep : \A y \in keep : x >= y)
\* the non-empty stripped segments of a comma-separated text, left to right
Pieces(s) ==
    LET kept == {b \in SegmentStarts(s) : Stripped(SegmentAfter(s, b)) # <<>>}
    IN [n \in 1..Cardinality(kept) |-> Stripped(SegmentAfter(s, NthOf(kept, n)))]

CoercedTypes == {Str(TYPE_INTEGER), Str(TYPE_DECIMAL), Str(TYPE_NUMBER), Str(TYPE_BOOLEAN)}

\* list is an array with one element per piece of text, in order: the piece
\* itself, or for a coerced type possibly the number or boolean it denotes
IsPieceList(list, text, coerced) ==
    /\ list.t = "array"
    /\ Len(list.a) = Len(Pieces(text))
    /\ \A j \in 1..Len(list.a) :
          \/ list.a[j] = Str(Pieces(text)[j])
          \/ coerced /\ list.a[j].t \in {"number", "boolean"}

\* {"#in":{"a":["a","b","c"]}}
InListText ==
    <<"{", "\"", "#", "i", "n", "\"", ":", "{", "\"", "a", "\"", ":", "[",
      "\"", "a", "\"", ",", "\"", "b", "\"", ",", "\"", "c", "\"", "]", "}", "}">>

\* C7: a condition with #in or #notIn and a string value compiles to
\* {operator: nested path of the field with a list as leaf}; the list holds the
\* comma-separated pieces of the value, trimmed, the empty ones dropped, in
\* their order (each as the field's type coerces it); never a scalar.
C7_InValueIsSplitList ==
    Done =>
        /\ \A i \in 1..Len(conditions) :
              LET c == conditions[i]
              IN IsInOperator(c.operator) /\ FlatComplete(c) /\ ~IsListCondition(c)
                    /\ c.value.t = "string"
                    => /\ HasNode(i)
                       /\ NodeAt(i).t = "object"
                       /\ NodeAt(i).k = c.operator.s
                       /\ WellNested(NodeAt(i).v, SegmentCount(c.field.s))
                       /\ IsNestedPath(NodeAt(i).v, c.field.s,
                                       LeafAt(NodeAt(i).v, SegmentCount(c.field.s)))
                       /\ IsPieceList(LeafAt(NodeAt(i).v, SegmentCount(c.field.s)),
                                      c.value.s, c.fieldType \in CoercedTypes)
        /\ conditions = <<Cond(Str(F_A), Str(OP_IN), Str(V_ABC), Str(TYPE_STRING))>>
              => rawFilter = InListText

\* "a, b ,c" under #in compiled to ["a","b","c"], and a value with an empty
\* segment compiled to a list without it
C7_Witness ==
    /\ Done
    /\ Len(conditions) = 1
    /\ conditions[1].operator = Str(OP_NOT_IN)
    /\ conditions[1].value = Str(V_MIXED)
    /\ conditions[1].fieldType = Str(TYPE_STRING)
    /\ conditions[1].field = Str(F_A)
    /\ filterConditions =
          Arr(<<Obj(OP_NOT_IN, Obj(<<"a">>, Arr(<<Str(<<"1">>), Str(<<"x">>), Str(<<"2">>)>>)))>>)

----------------------------------------------------------------------------
\* What an element of an #in/#notIn list denotes

DigitChars == {"0", "1", "2", "3", "4", "5", "6", "7", "8", "9"}
DigitNumber(c) ==
    CASE c = "0" -> 0 [] c = "1" -> 1 [] c = "2" -> 2 [] c = "3" -> 3 [] c = "4" -> 4
      [] c = "5" -> 5 [] c = "6" -> 6 [] c = "7" -> 7 [] c = "8" -> 8 [] c = "9" -> 9

RECURSIVE PowerOfTen(_)
PowerOfTen(n) == IF n = 0 THEN 1 ELSE 10 * PowerOfTen(n - 1)

RECURSIVE WeightedSum(_, _)
\* the number the first k characters of u, all digits, denote
WeightedSum(u, k) ==
    IF k = 0 THEN 0
    ELSE DigitNumber(u[1]) * PowerOfTen(k - 1) + WeightedSum(SubSeq(u, 2, Len(u)), k - 1)

HasLeadingSign(p) == Len(p) > 0 /\ p[1] \in {"+", "-"}
Unsigned(p) == IF HasLeadingSign(p) THEN SubSeq(p, 2, Len(p)) ELSE p
IsNegative(p) == Len(p) > 0 /\ p[1] = "-"
\* the length of the longest run of digits u begins with
DigitRun(u) ==
    CHOOSE k \in 0..Len(u) :
        /\ \A i \in 1..k : u[i] \in DigitChars
        /\ k = Len(u) \/ u[k + 1] \notin DigitChars

\* a text that is a base-10 integer literal: digits, after an optional sign
IsIntegerLiteral(p) == Unsigned(p) # <<>> /\ DigitRun(Unsigned(p)) = Len(Unsigned(p))
\* a text that begins with a base-10 integer, after an optional sign
HasIntegerPrefix(p) == DigitRun(Unsigned(p)) > 0
\* the integer p begins with
IntegerPrefix(p) ==
    Num(IsNegative(p), WeightedSum(Unsigned(p), DigitRun(Unsigned(p))), <<>>)

\* the digits after the point that follows the integer part of u, if any
FractionRun(u) ==
    LET k == DigitRun(u)
        after == SubSeq(u, k + 2, Len(u))
    IN IF k < Len(u) /\ u[k + 1] = "." THEN SubSeq(after, 1, DigitRun(after)) ELSE <<>>
\* digits without the zeros at their end
SignificantDigits(d) ==
    LET nonzero == {i \in 1..Len(d) : d[i] # "0"}
    IN IF nonzero = {} THEN <<>>
       ELSE SubSeq(d, 1, CHOOSE x \in nonzero : \A y \in nonzero : x >= y)
\* a text that begins with a decimal number, after an optional sign
HasDecimalPrefix(p) == DigitRun(Unsigned(p)) > 0 \/ FractionRun(Unsigned(p)) # <<>>
\* the decimal number p begins with
DecimalPrefix(p) ==
    Num(IsNegative(p), WeightedSum(Unsigned(p), DigitRun(Unsigned(p))),
        SignificantDigits(FractionRun(Unsigned(p))))

TrueWords == {<<"t", "r", "u", "e">>, <<"1">>, <<"y", "e", "s">>}
FalseWords == {<<"f", "a", "l", "s", "e">>, <<"0">>, <<"n", "o">>}
BooleanElement(p) ==
    IF ToLowerCase(p) \in TrueWords THEN Bool(TRUE)
    ELSE IF ToLowerCase(p) \in FalseWords THEN Bool(FALSE)
    ELSE Str(p)

\* the element the claim as written expects for piece p on a field of this
\* type (<<>> when no type is known)
ClaimedElement(p, type) ==
    IF type = TYPE_INTEGER THEN (IF IsIntegerLiteral(p) THEN IntegerPrefix(p) ELSE Str(p))
    ELSE IF type = TYPE_BOOLEAN THEN BooleanElement(p)
    ELSE Str(p)

\* the element the amended claim expects
AmendedElement(p, type) ==
    IF type = TYPE_INTEGER THEN (IF HasIntegerPrefix(p) THEN IntegerPrefix(p) ELSE Str(p))
    ELSE IF type \in {TYPE_DECIMAL, TYPE_NUMBER}
    THEN (IF HasDecimalPrefix(p) THEN DecimalPrefix(p) ELSE Str(p))
    ELSE IF type = TYPE_BOOLEAN THEN BooleanElement(p)
    ELSE Str(p)

ExpectedElement(p, type, amended) ==
    IF amended THEN AmendedElement(p, type) ELSE ClaimedElement(p, type)

\* list is the array of the elements expected for the pieces of text
IsExpectedList(list, text, type, amended) ==
    /\ list.t = "array"
    /\ Len(list.a) = Len(Pieces(text))
    /\ \A j \in 1..Len(list.a) : list.a[j] = ExpectedElement(Pieces(text)[j], type, amended)

\* the type of a flat condition's field, <<>> when it has none
FieldTypeOf(c) == IF c.fieldType.t = "string" THEN c.fieldType.s ELSE <<>>

\* the type the sub-schema declares for an item field, in lower case, <<>>
\* when the condition has no schema or the schema no such property
DeclaredItemType(c, field) ==
    IF c.schema = Undefined THEN <<>>
    ELSE LET entries == {n \in 1..Len(c.schema.m) : c.schema.m[n].k = field}
         IN IF entries = {} THEN <<>>
            ELSE LET e == c.schema.m[CHOOSE n \in entries : TRUE]
                 IN IF e.type.t = "string" THEN ToLowerCase(e.type.s) ELSE <<>>

\* the complete item-conditions of a list condition, in order
CompleteItems(c) == SelectSeq(c.listConditions.a, ItemComplete)

\* node is a list node: {mode: {field: {logic: [items]}}}
IsListNodeShape(node) ==
    /\ node.t = "object"
    /\ node.v.t = "object"
    /\ node.v.v.t = "object"
    /\ node.v.v.v.t = "array"
ListNodeItems(node) == node.v.v.v.a

\* every #in/#notIn list of the compiled nodes holds the expected elements:
\* those of flat conditions by fieldType, those of item-conditions by the
\* declared type of the item field
InListsAsExpected(amended) ==
    \A i \in 1..Len(conditions) :
        LET c == conditions[i]
        IN /\ ~IsListCondition(c) /\ FlatComplete(c) /\ IsInOperator(c.operator)
                /\ c.value.t = "string"
              => /\ HasNode(i)
                 /\ NodeAt(i).t = "object"
                 /\ WellNested(NodeAt(i).v, SegmentCount(c.field.s))
                 /\ IsExpectedList(LeafAt(NodeAt(i).v, SegmentCount(c.field.s)),
                                   c.value.s, FieldTypeOf(c), amended)
           /\ IsListCondition(c) /\ ListComplete(c)
              => /\ HasNode(i)
                 /\ IsListNodeShape(NodeAt(i))
                 /\ Len(ListNodeItems(NodeAt(i))) = Len(CompleteItems(c))
                 /\ \A n \in 1..Len(CompleteItems(c)) :
                       LET it == CompleteItems(c)[n]
                           node == ListNodeItems(NodeAt(i))[n]
                       IN IsInOperator(it.operator) /\ it.value.t = "string"
                             => /\ node.t = "object"
                                /\ node.v.t = "object"
                                /\ IsExpectedList(node.v.v, it.value.s,
                                                  DeclaredItemType(c, it.field.s), amended)

----------------------------------------------------------------------------
\* Array-typed fields

IsArrayOperator(op) == ~IsExistenceOperator(op) /\ ~IsInOperator(op)

\* C9: a complete condition on an array-typed field whose operator is none of
\* #in, #notIn, #exists, #notExist (#eq included) compiles to the nested-path
\* object of its field whose leaf is {operator: value}; the operator is not
\* the outermost key of the node.
C9_ArrayNestingInverted ==
    Done =>
        \A i \in 1..Len(conditions) :
            LET c == conditions[i]
            IN /\ ~IsListCondition(c)
               /\ c.fieldType = Str(TYPE_ARRAY)
               /\ FlatComplete(c)
               /\ IsArrayOperator(c.operator)
               => /\ HasNode(i)
                  /\ IsNestedPath(NodeAt(i), c.field.s, Obj(c.operator.s, c.value))
                  /\ NodeAt(i).k # c.operator.s

\* a.b.c #contains "x" on an array field compiled to
\* {"a":{"b":{"c":{"#contains":"x"}}}}, and a #eq one kept its operator
C9_Witness ==
    /\ Done
    /\ \E i \in 1..Len(conditions) :
          /\ conditions[i] = Cond(Str(F_ABC), Str(OP_CONTAINS), Str(V_X), Str(TYPE_ARRAY))
          /\ rawFilter = JSONStringify(
                 Obj(<<"a">>, Obj(<<"b">>, Obj(<<"c">>, Obj(OP_CONTAINS, Str(V_X))))))

----------------------------------------------------------------------------
\* List conditions

\* the item node expected for a complete item-condition: the item field is
\* one key; the value is the item's own, or a list when #in/#notIn split it
IsItemNode(node, it) ==
    LET inner == IF it.operator.s = OP_EQ THEN node ELSE node.v
    IN /\ node.t = "object"
       /\ it.operator.s # OP_EQ => node.k = it.operator.s /\ node.v.t = "object"
       /\ inner.k = it.field.s
       /\ IF IsInOperator(it.operator) /\ it.value.t = "string"
          THEN inner.v.t = "array" /\ Len(inner.v.a) = Len(Pieces(it.value.s))
          ELSE inner.v = it.value

C10_WitnessDefaultMode ==
    /\ Done
    /\ \E i \in 1..Len(conditions) :
          /\ IsListCondition(conditions[i])
          /\ conditions[i].listMode = Undefined
          /\ HasNode(i)
          /\ NodeAt(i).k = MODE_ANY

----------------------------------------------------------------------------
\* Which list conditions contribute a node

\* at least one item-condition with a field, an operator and a value
HasCompleteItem(c) ==
    /\ c.listConditions # Undefined
    /\ \E j \in 1..Len(c.listConditions.a) : ItemComplete(c.listConditions.a[j])

\* every list condition for which expected(c) holds adds one node to the
\* nodes of the other conditions, every other one leaves the text as it is
\* without it; the items of an emitted list node are the complete
\* item-conditions, and there is at least one
ListContributes(withField) ==
    \A i \in 1..Len(conditions) :
        LET c == conditions[i]
            expected == HasCompleteItem(c) /\ (withField => NonEmptyString(c.field))
            without == buildFilterStringLocals(RemoveAt(conditions, i), filterLogic)
        IN IsListCondition(c) =>
              /\ expected <=> NodeCount(filterConditions) = NodeCount(without.nodes) + 1
              /\ ~expected => /\ rawFilter = without.raw
                              /\ NodeCount(filterConditions) = NodeCount(without.nodes)
              /\ HasNode(i) =>
                    /\ IsListNodeShape(NodeAt(i))
                    /\ Len(ListNodeItems(NodeAt(i))) = Len(CompleteItems(c))
                    /\ Len(ListNodeItems(NodeAt(i))) > 0
                    /\ \A n \in 1..Len(CompleteItems(c)) :
                          IsItemNode(ListNodeItems(NodeAt(i))[n], CompleteItems(c)[n])

\* C11 as amended: a list condition contributes a node if and only if its own
\* field is non-empty and at least one of its listConditions has a non-empty
\* field, a non-empty operator and a non-empty value; every other list
\* condition contributes no node, and the items of an emitted list node are
\* exactly the valid item-conditions, so never empty.
C11_ListContributesIffFieldAndItem == Done => ListContributes(TRUE)

\* C11 as written: one valid item-condition is enough for the list condition
\* to contribute a node, whatever its own field.
C11_AsClaimed == Done => ListContributes(FALSE)

\* a list condition with one complete and one incomplete item-condition
\* compiled to a node with one item
C11_Witness ==
    /\ Done
    /\ Len(conditions) = 1
    /\ IsListCondition(conditions[1])
    /\ conditions[1].listConditions # Undefined
    /\ Len(conditions[1].listConditions.a) = 2
    /\ HasNode(1)
    /\ Len(ListNodeItems(NodeAt(1))) = 1

\* a list condition without a field of its own but with a complete
\* item-condition compiled to nothing
C11_WitnessNoField ==
    /\ Done
    /\ Len(conditions) = 1
    /\ IsListCondition(conditions[1])
    /\ HasCompleteItem(conditions[1])
    /\ conditions[1].field = Str(<<>>)
    /\ rawFilter = <<>>

----------------------------------------------------------------------------
\* Step 1 and Step 2 on list conditions; malformed input

Thrown == pc = "thrown"

\* a condition under the list rule of Step 1: fieldType 'list' or the isList flag
UnderListRule(c) == c.fieldType = Str(TYPE_LIST) \/ Truthy(c.isList)

\* C12 as written: every condition Step 1 accepted under the list rule has a
\* node, and that node is a list node {#any|#all: {field: {logic: [items]}}},
\* not a node built from its top-level operator and value.
C12_AsClaimed ==
    Done /\ validConditions # Undefined /\ Len(validConditions.a) > 0 =>
        /\ filterConditions # Undefined
        /\ Len(filterConditions.a) = Len(validConditions.a)
        /\ \A k \in 1..Len(validConditions.a) :
              UnderListRule(validConditions.a[k]) =>
                  /\ IsListNodeShape(filterConditions.a[k])
                  /\ filterConditions.a[k].k \in {MODE_ANY, MODE_ALL}

\* C13 as written: the call never throws, whatever its argument.
C13_AsClaimed == ~Thrown

----------------------------------------------------------------------------
\* Percent-decoding, the inverse the encoded text is read with

\* the character of a code point, where the alphabet has one
HasCharOfCode(n) == (n >= 32 /\ n <= 126) \/ n \in {1, 9, 10, 13, 233}
CharOfCode(n) ==
    CASE n = 1 -> "SOH"
      [] n = 9 -> "\t"
      [] n = 10 -> "\n"
      [] n = 13 -> "\r"
      [] n = 233 -> "U+00E9"
      [] OTHER -> Printable[n - 31]
IsHexDigit(c) == c \in {"0", "1", "2", "3", "4", "5", "6", "7", "8", "9", "A", "B", "C", "D", "E", "F"}
HexValue(c) ==
    CASE c = "A" -> 10 [] c = "B" -> 11 [] c = "C" -> 12 [] c = "D" -> 13 [] c = "E" -> 14
      [] c = "F" -> 15 [] OTHER -> DigitNumber(c)

\* the byte of the escape %XX at position i of text, -1 where there is none
EscapedByte(text, i) ==
    IF text[i] = "%" /\ i + 2 <= Len(text) /\ IsHexDigit(text[i + 1]) /\ IsHexDigit(text[i + 2])
    THEN 16 * HexValue(text[i + 1]) + HexValue(text[i + 2])
    ELSE -1

RECURSIVE DecodeFrom(_, _, _)
\* acc, followed by the characters text denotes from position i on: a
\* character that is no '%' stands for itself, escapes are the UTF-8 bytes of
\* a character; "URIError" where they are not
DecodeFrom(text, i, acc) ==
    IF i > Len(text) THEN acc
    ELSE IF text[i] # "%" THEN DecodeFrom(text, i + 1, Append(acc, text[i]))
    ELSE LET b1 == EscapedByte(text, i)
             b2 == IF i + 3 <= Len(text) THEN EscapedByte(text, i + 3) ELSE -1
             code == (b1 - 192) * 64 + (b2 - 128)
         IN IF b1 >= 0 /\ b1 < 128 /\ HasCharOfCode(b1)
            THEN DecodeFrom(text, i + 3, Append(acc, CharOfCode(b1)))
            ELSE IF /\ b1 >= 192 /\ b1 < 224 /\ b2 >= 128 /\ b2 < 192
                    /\ code >= 128 /\ HasCharOfCode(code)
            THEN DecodeFrom(text, i + 6, Append(acc, CharOfCode(code)))
            ELSE Append(acc, "URIError")

\* standard percent-decoding (decodeURIComponent)
PercentDecode(text) == DecodeFrom(text, 1, <<>>)

\* C14: percent-decoding the encoded text gives back the raw text exactly,
\* whatever the compiler produced (quotes, braces, '#', '%', the escaped
\* separator, non-ASCII characters), and the encoded text is empty exactly
\* when the raw text is.
C14_EncodingRoundTrip ==
    Done => /\ PercentDecode(encodedFilter) = rawFilter
            /\ encodedFilter = <<>> <=> rawFilter = <<>>

\* a raw text with e acute, a quote, a brace and '%41' in a value, next to
\* '#', was encoded: the e acute as %C3%A9 and the '%' as %25
C14_Witness ==
    /\ Done
    /\ conditions = <<Cond(Str(F_AB), Str(OP_GT), Str(V_SPECIAL), Str(TYPE_STRING))>>
    /\ rawFilter = <<"{", "\"", "#", "g", "t", "\"", ":", "{", "\"", "a", "\"", ":", "{",
                     "\"", "b", "\"", ":", "\"", "U+00E9", "\\", "\"", "}", "%", "4", "1",
                     "\"", "}", "}", "}">>
    /\ \E i \in 1..(Len(encodedFilter) - 8) :
          SubSeq(encodedFilter, i, i + 8) = <<"%", "C", "3", "%", "A", "9", "%", "5", "C">>
    /\ \E i \in 1..(Len(encodedFilter) - 4) :
          SubSeq(encodedFilter, i, i + 4) = <<"%", "2", "5", "4", "1">>

----------------------------------------------------------------------------
\* The operators offered

\* the values of the returned operators, in order
OperatorValues == [i \in 1..Len(operators) |-> operators[i].value]
Offers(op) == \E i \in 1..Len(operators) : operators[i].value = op

\* a type name that stands for a numeric type, whatever its letter case
NumericTypeNames == {TYPE_INTEGER, TYPE_DECIMAL, TYPE_NUMBER, TYPE_FLOAT, TYPE_DOUBLE}
IsNumericTypeName(type) == ToLowerCase(type) \in NumericTypeNames

\* C15: for a type that normalises to a numeric type (integer, decimal,
\* number, float, double, in any letter case) getOperatorsForType returns none
\* of #contains, #notContain, #startsWith, #endsWith.
C15_NoStringOperatorsOnNumericTypes ==
    pc = "operatorsForType" /\ IsNumericTypeName(attributeType) =>
        /\ ~Offers(OP_CONTAINS)
        /\ ~Offers(OP_NOT_CONTAIN)
        /\ ~Offers(OP_STARTS_WITH)
        /\ ~Offers(OP_ENDS_WITH)

\* the lookup for 'FLOAT' returned the operators of decimal, #gt among them
C15_Witness ==
    /\ pc = "operatorsForType"
    /\ attributeType = <<"F", "L", "O", "A", "T">>
    /\ Offers(OP_GT)
    /\ Offers(OP_EQ)

\* the types for which the catalog lists #exists and #notExist
TypesWithExistence ==
    {TYPE_STRING, TYPE_INTEGER, TYPE_DECIMAL, TYPE_BOOLEAN, TYPE_DATE, TYPE_DATE_TIME,
     TYPE_ARRAY}
\* the attribute types of the data model
DataModelTypes == TypesWithExistence \cup {TYPE_ENUM, TYPE_LIST}

\* C16 as amended: for string, integer, decimal, boolean, date, date_time and
\* array getOperatorsForType includes #exists and #notExist; for enum and list
\* it returns no operator at all.
C16_ExistenceOnCatalogTypes ==
    pc = "operatorsForType" =>
        /\ attributeType \in TypesWithExistence => Offers(OP_EXISTS) /\ Offers(OP_NOT_EXIST)
        /\ attributeType \in {TYPE_ENUM, TYPE_LIST} => operators = <<>>

\* C16 as written: for every type of the data model, enum and list included,
\* getOperatorsForType includes #exists and #notExist.
C16_AsClaimed ==
    pc = "operatorsForType" /\ attributeType \in DataModelTypes =>
        Offers(OP_EXISTS) /\ Offers(OP_NOT_EXIST)

\* the lookup for 'array' returned #contains, #notContain, #exists, #notExist
C16_Witness ==
    /\ pc = "operatorsForType"
    /\ attributeType = TYPE_ARRAY
    /\ OperatorValues = <<OP_CONTAINS, OP_NOT_CONTAIN, OP_EXISTS, OP_NOT_EXIST>>

\* the attribute a field name refers to, when it is a known attribute
IsKnownAttribute(name) == \E i \in 1..Len(attributes) : attributes[i].name = name
AttributeNamed(name) == attributes[CHOOSE i \in 1..Len(attributes) : attributes[i].name = name]

\* C17: for a field that is a known attribute the operators offered are
\* exactly #contains and #notContain when the field is named exactly 'tags',
\* whatever its type; otherwise exactly #eq and #ne when its type is enum;
\* otherwise those of the generic type lookup.
C17_OperatorsNarrowedPerField ==
    pc = "operatorsForAttribute" /\ IsKnownAttribute(fieldName) =>
        IF fieldName = FIELD_TAGS THEN OperatorValues = <<OP_CONTAINS, OP_NOT_CONTAIN>>
        ELSE IF AttributeNamed(fieldName).type = TYPE_ENUM THEN OperatorValues = <<OP_EQ, OP_NE>>
        ELSE operators = getOperatorsForType(AttributeNamed(fieldName).type)

\* the field 'tags', an array, was offered #contains and #notContain only,
\* without the #exists and #notExist of the array type
C17_Witness ==
    /\ pc = "operatorsForAttribute"
    /\ fieldName = FIELD_TAGS
    /\ IsKnownAttribute(fieldName)
    /\ AttributeNamed(fieldName).type = TYPE_ARRAY
    /\ OperatorValues = <<OP_CONTAINS, OP_NOT_CONTAIN>>

\* an enum field was offered #eq and #ne only
C17_WitnessEnum ==
    /\ pc = "operatorsForAttribute"
    /\ fieldName = FIELD_GENDER
    /\ IsKnownAttribute(fieldName)
    /\ OperatorValues = <<OP_EQ, OP_NE>>

----------------------------------------------------------------------------
\* The Authorization header and the key sanitizer

HasLeadingWhiteSpace(s) == Len(s) > 0 /\ IsWhiteSpace(s[1])
HasTrailingWhiteSpace(s) == Len(s) > 0 /\ IsWhiteSpace(s[Len(s)])
HasNonAscii(s) == \E i \in 1..Len(s) : IsNonAscii(s[i])
IsSanitised(s) == ~HasLeadingWhiteSpace(s) /\ ~HasTrailingWhiteSpace(s) /\ ~HasNonAscii(s)

\* C18 (as the specification states it): every request sent carries the
\* header "App " followed by the sanitised form of the entered key, and the
\* entered key is never sent unsanitised.  The fetcher App.jsx imports sends
\* the key as entered.
C18_AsClaimed ==
    \A r \in requests :
        /\ r.authorization = AuthorizationHeader(sanitizeApiKey(apiKey))
        /\ IsSanitised(SubSeq(r.authorization, 5, Len(r.authorization)))

\* C19 (as the specification states it): the result of sanitizeApiKey has no
\* white space at either end and no non-ASCII character, and sanitising it
\* again returns it unchanged.  The trim runs before the removal, so white
\* space next to a removed character at either end remains.
C19_AsClaimed ==
    pc = "sanitized" =>
        /\ IsSanitised(cleanApiKey)
        /\ sanitizeApiKey(cleanApiKey) = cleanApiKey

----------------------------------------------------------------------------
\* Partial failure of the attribute sources

\* the sources the fetcher asks
AskedSources == IF fetcher = FETCHER_WITH_LISTS THEN {"standard", "custom", "lists"}
                ELSE {"standard", "custom"}
SourceFails(source) == source \in AskedSources /\ sourceOutcome[source] = OUTCOME_FAILS
SourceSucceeds(source) == source \in AskedSources /\ sourceOutcome[source] # OUTCOME_FAILS
SourceLoads(source) == source \in AskedSources /\ sourceOutcome[source] = OUTCOME_SOME
SourceLabel(source) ==
    IF source = "standard" THEN "Standard attributes"
    ELSE IF source = "custom" THEN "Custom attributes"
    ELSE "Lists"
WarningShown == attributeError # Null
Names(source) ==
    /\ WarningShown
    /\ attributeError.message = "Partial success"
    /\ \E i \in 1..Len(attributeError.errors) : attributeError.errors[i] = SourceLabel(source)
Loaded == pc = "loaded"

\* C20 (amended): after a load, the attributes are loaded exactly when some
\* source returned at least one attribute; then the call resolved, the
\* warning is shown exactly when the standard or the custom source failed and
\* names exactly those, and a failure of the lists source is not reported.
\* When no source returned an attribute the call rejected, attributesLoaded is
\* false and the error is shown.
C20_PartialFailureReported ==
    Loaded =>
        IF \E source \in AskedSources : SourceLoads(source)
        THEN /\ fetchResult.status = "fulfilled"
             /\ attributesLoaded
             /\ Len(attributes) > 0
             /\ WarningShown <=> (SourceFails("standard") \/ SourceFails("custom"))
             /\ \A source \in {"standard", "custom"} : Names(source) <=> SourceFails(source)
             /\ ~Names("lists")
        ELSE /\ fetchResult.status = "rejected"
             /\ ~attributesLoaded
             /\ WarningShown
             /\ attributeError.message = "Failed to fetch attributes"

\* C20 (as the specification states it): whenever a source fails while
\* another succeeds, the call resolves, every failed source is named, and the
\* warning is shown while attributesLoaded is true.
C20_AsClaimed ==
    (/\ Loaded
     /\ \E source \in AskedSources : SourceFails(source)
     /\ \E source \in AskedSources : SourceSucceeds(source))
    => /\ fetchResult.status = "fulfilled"
       /\ attributesLoaded
       /\ WarningShown
       /\ \A source \in AskedSources : SourceFails(source) => Names(source)

\* the standard source failed, the custom source and the lists loaded
C20_Witness ==
    /\ Loaded
    /\ fetcher = FETCHER_WITH_LISTS
    /\ SourceFails("standard")
    /\ SourceLoads("custom")
    /\ attributesLoaded
    /\ Names("standard")
    /\ ~Names("custom")

\* only the lists source failed: nothing is reported
C20_WitnessListsFail ==
    /\ Loaded
    /\ fetcher = FETCHER_WITH_LISTS
    /\ SourceFails("lists")
    /\ SourceLoads("standard")
    /\ attributesLoaded
    /\ ~WarningShown

\* a source succeeded with no attribute and the others failed: the call rejected
C20_WitnessNothingLoaded ==
    /\ Loaded
    /\ SourceFails("standard")
    /\ sourceOutcome.custom = OUTCOME_NONE
    /\ ~attributesLoaded

----------------------------------------------------------------------------
\* Total failure of the attribute sources

Rejected == Loaded /\ fetchResult.status = "rejected"

\* the rejection message carries the message of the source
Reports(source) ==
    /\ WarningShown
    /\ attributeError.message = "Failed to fetch attributes"
    /\ \E i \in 1..Len(attributeError.errors) : attributeError.errors[i] = SourceLabel(source)

\* C21 (as the specification states it): fetchAllAttributes rejects exactly
\* when no attribute was gathered, the rejection message carries the message
\* of every failed mandatory source (standard, custom), and attributesLoaded
\* is false afterwards.  The fetcher App.jsx imports rejects with a fixed
\* message that names no source.
C21_AsClaimed ==
    Loaded =>
        /\ Rejected <=> ~(\E source \in AskedSources : SourceLoads(source))
        /\ Rejected =>
              /\ ~attributesLoaded
              /\ \A source \in {"standard", "custom"} : SourceFails(source) => Reports(source)

----------------------------------------------------------------------------
\* Pagination

Finished == pc \in {"returned", "threw"}
Asked == Len(pageRequests)

\* the number of items the remote has on page p
ItemsOnPage(p) ==
    LET rest == remoteCount - (p - 1) * 1000
    IN IF rest <= 0 THEN 0 ELSE IF rest >= 1000 THEN 1000 ELSE rest

GaveItems(p) == pageResponse[p] = "200 with the item array"
FullPage(p) == GaveItems(p) /\ ItemsOnPage(p) = 1000
EndedQuietly(p) ==
    \/ pageResponse[p] = "404"
    \/ pageResponse[p] = "400" /\ endpoint = "/people/3/lists"
    \/ pageResponse[p] = "200 without the item array"
    \/ GaveItems(p) /\ ItemsOnPage(p) < 1000

\* pages 1, 2, 3, ... were asked in order with limit 1000, each after a full page
AskedInOrder ==
    /\ \A j \in 1..Asked : pageRequests[j] = [page |-> j, limit |-> 1000]
    /\ \A j \in 1..(Asked - 1) : FullPage(j)

\* the result is the items of the pages that gave items, in page order
IsConcatenation ==
    /\ \A j \in 1..Len(allItems) :
          /\ GaveItems(j)
          /\ allItems[j].first = (j - 1) * 1000 + 1
          /\ allItems[j].last = (j - 1) * 1000 + ItemsOnPage(j)
    /\ \A j \in 1..Asked : (GaveItems(j) /\ ItemsOnPage(j) > 0) => j <= Len(allItems)

StopsAtFirstShortPage ==
    /\ pc = "paging" => (Asked = 0 \/ FullPage(Asked))
    /\ pc = "returned" => (Asked > 0 /\ EndedQuietly(Asked))
    /\ pc = "threw" => (Asked > 0 /\ ~FullPage(Asked) /\ ~EndedQuietly(Asked))

ListingAsClaimed == AskedInOrder /\ IsConcatenation /\ StopsAtFirstShortPage

C22_WitnessExactMultiple ==
    /\ pc = "returned"
    /\ remoteCount = 2000
    /\ Asked = 3
    /\ GaveItems(3)
    /\ Len(allItems) = 2

\* a 400 on the custom attributes is an error
C22_WitnessThrew ==
    /\ pc = "threw"
    /\ endpoint = "/people/2/customAttributes"
    /\ Asked = 2
    /\ pageResponse[2] = "400"

----------------------------------------------------------------------------
\* The result of a test query

Resolved == pc = "resolved"
Completed == testOutcome.settled = "fulfilled"
HttpSuccess == Completed /\ testOutcome.status \in 200..299
IsNetworkErrorResult == testResult.status = 0 /\ testResult.statusText = "Network Error"

\* C23 (as the specification states it): the result is the network-error
\* result (status 0, 'Network Error') exactly when the request could not
\* complete; a request completed with a non-success status gives that status
\* and statusText with success false; success is true exactly when error is
\* null.  A completed response whose body does not parse is reported as a
\* network error.
C23_AsClaimed ==
    Resolved =>
        /\ IsNetworkErrorResult <=> ~Completed
        /\ (Completed /\ ~HttpSuccess) =>
              /\ testResult.status = testOutcome.status
              /\ testResult.statusText = testOutcome.statusText
              /\ testResult.success = FALSE
        /\ testResult.success <=> (testResult.error = Null)

----------------------------------------------------------------------------
\* Configuration errors

IsBlank(text) == \A i \in 1..Len(text) : text[i] \in {" ", "\t", "\n", "\r"}
HasNoScheme(text) == \A i \in 1..Len(text) : text[i] # ":"
UrlProblem == IsBlank(baseUrl) \/ HasNoScheme(baseUrl)
KeyProblem == IsBlank(apiKey)
ProblemCount == (IF UrlProblem THEN 1 ELSE 0) + (IF KeyProblem THEN 1 ELSE 0)
RequestStarted ==
    \/ loadsInFlight' > loadsInFlight
    \/ testsInFlight' > testsInFlight
    \/ requests' # requests
Blocked == alert' # Null

\* a click with a configuration problem shows one message per problem, sends
\* nothing and changes nothing; a request starts only without a problem
BlockedBeforeRequest ==
    /\ validateApiConfig(baseUrl, apiKey).isValid <=> ProblemCount = 0
    /\ validateApiConfig(baseUrl, apiKey).isValid <=>
          Len(validateApiConfig(baseUrl, apiKey).errors) = 0
    /\ Blocked =>
          /\ ProblemCount > 0
          /\ Len(alert'.a) = ProblemCount
          /\ ~RequestStarted
          /\ UNCHANGED <<attributes, attributesLoaded, attributeError, testResult,
                         isLoadingAttributes, isTestingQuery>>
    /\ RequestStarted => ProblemCount = 0

\* C24: when the base URL is empty, blank or no valid URL, or the API key is
\* empty or blank, validateApiConfig returns isValid false with one message
\* per problem (isValid exactly when there is none), and load attributes and
\* test query then send no request and leave attributes, attributesLoaded,
\* attributeError, testResult and both loading flags unchanged.
C24_ConfigErrorsBlockRequests == [][BlockedBeforeRequest]_vars

\* a click with a blank base URL and a blank key, after a load: two messages
C24_Witness ==
    /\ alert # Null
    /\ Len(alert.a) = 2
    /\ IsBlank(baseUrl)
    /\ IsBlank(apiKey)
    /\ attributesLoaded

\* a click on Test Query with a key made blank after the load
C24_WitnessTest ==
    /\ alert # Null
    /\ IsBlank(apiKey)
    /\ ~UrlProblem
    /\ Len(rawFilter) > 0
    /\ attributesLoaded
    /\ ~isTestingQuery
    /\ testResult # Null

----------------------------------------------------------------------------
\* The lifecycle of the attributes

LoadStarted == loadsInFlight' > loadsInFlight

\* C25 (as the specification states it): once a load has succeeded
\* (attributesLoaded is true), no later step starts another attribute fetch,
\* changes the attributes or resets attributesLoaded.  The Connect button
\* stays enabled after a load, and a later load that fails resets the flag.
C25_AsClaimed ==
    [][attributesLoaded => (~LoadStarted /\ attributes' = attributes /\ attributesLoaded')]_vars

----------------------------------------------------------------------------
\* Requests in flight

\* C26: at most one test query and at most one attribute load are in flight
\* at any time: a test query starts only while isTestingQuery is false and a
\* load only while isLoadingAttributes is false, and each flag is true exactly
\* while its request is in flight; the two kinds may overlap.
C26_OneInFlightPerKind ==
    /\ loadsInFlight <= 1
    /\ testsInFlight <= 1
    /\ isLoadingAttributes <=> loadsInFlight = 1
    /\ isTestingQuery <=> testsInFlight = 1

\* a test query and an attribute load are in flight together
C26_Witness ==
    /\ loadsInFlight = 1
    /\ testsInFlight = 1
    /\ isLoadingAttributes
    /\ isTestingQuery

----------------------------------------------------------------------------
\* Completion of the asynchronous actions

TestCompletes == isTestingQuery ~> (~isTestingQuery /\ testResult # Null)
LoadCompletes ==
    isLoadingAttributes ~>
        (~isLoadingAttributes /\ (attributesLoaded \/ attributeError # Null))
IssuedWhenReady == \A t \in testsIssued : t.attributesLoaded /\ Len(t.encoded) > 0

\* C30: provided every fetch settles, each test query that set isTestingQuery
\* eventually leaves it false with a non-null testResult, and each attribute
\* load that set isLoadingAttributes eventually leaves it false with
\* attributesLoaded true or attributeError non-null; a test request is only
\* ever sent with attributesLoaded true and a non-empty encoded filter.
C30_AsyncActionsComplete == []IssuedWhenReady /\ TestCompletes /\ LoadCompletes

\* a test query ended with an HTTP error and a load with a rejection
C30_Witness ==
    /\ testsIssued # {}
    /\ ~isTestingQuery
    /\ testResult # Null
    /\ testResult.status = 400
    /\ ~isLoadingAttributes
    /\ ~attributesLoaded
    /\ attributeError # Null

\* a test query ended with a transport failure
C30_WitnessTransport ==
    /\ testsIssued # {}
    /\ ~isTestingQuery
    /\ testResult # Null
    /\ testResult.status = 0
    /\ testOutcome.settled = "rejected"

----------------------------------------------------------------------------
\* The operators held by the rows of the builder

FlatRow(c) == ~IsListRow(attributes, c)
KnownField(c) == selectedAttribute(attributes, c) # Undefined
\* the row alone compiles to a node
Contributes(c) == Len(buildFilterString(<<c>>, filterLogic)) > 0
HoldsOfferedOperator(c) ==
    IsStr(c.operator) /\ Includes(OfferedOperators(attributes, c), c.operator.s)

\* C27: after any sequence of edits over the fixed attribute list, every flat
\* condition on a known attribute that the compiled filter contains holds an
\* operator the operator select of its row offers for that field.
C27_AsClaimed ==
    \A i \in 1..Len(conditions) :
        (FlatRow(conditions[i]) /\ KnownField(conditions[i]) /\ Contributes(conditions[i]))
            => HoldsOfferedOperator(conditions[i])

----------------------------------------------------------------------------
\* The reset of a row by the selection of a field

SelectsField ==
    /\ Len(conditions') = Len(conditions)
    /\ \E i \in 1..Len(conditions) : conditions'[i].field # conditions[i].field
IsListAttribute(attribute) == attribute.type = TYPE_LIST \/ Truthy(attribute.isList)
\* the row as the claim describes it after the selection of its field
ResetFor(c) ==
    IF IsListAttribute(selectedAttribute(attributes, c))
    THEN /\ c.fieldType = Str(TYPE_LIST)
         /\ c.operator = Null
         /\ c.value = Str(<<>>)
         /\ c.listMode = Str(MODE_ANY)
         /\ c.listLogic = Str(LOGIC_AND)
         /\ c.listConditions = Arr(<<>>)
    ELSE /\ c.operator = Str(OP_EQ)
         /\ c.value = Str(<<>>)
         /\ c.listMode = Undefined
         /\ c.listLogic = Undefined
         /\ c.listConditions = Undefined
         /\ c.schema = Undefined
FieldChangeResets ==
    SelectsField =>
        \A i \in 1..Len(conditions) :
            (conditions'[i].field # conditions[i].field /\ Truthy(conditions'[i].field))
                => /\ ResetFor(conditions'[i])
                   /\ Len(buildFilterString(<<conditions'[i]>>, filterLogic)) = 0
RowsChanged == {i \in 1..Len(conditions) : conditions'[i] # conditions[i]}
FieldChangeLeavesOthers == SelectsField => Cardinality(RowsChanged) = 1
ListConditionsIffList ==
    \A i \in 1..Len(conditions) :
        (conditions[i].listConditions # Undefined) <=> (conditions[i].fieldType = Str(TYPE_LIST))

\* C28: the selection of a new non-empty field resets the row (operator #eq,
\* empty value and no list property for a non-list attribute; fieldType
\* 'list', operator null, empty value, mode #any, logic 'and' and no
\* item-condition for a list attribute), the row then contributes no node,
\* every other row is left as it was, and at all times a row carries
\* listConditions exactly when its fieldType is 'list'.
C28_AsClaimed ==
    /\ [][FieldChangeResets /\ FieldChangeLeavesOthers]_vars
    /\ []ListConditionsIffList

----------------------------------------------------------------------------
\* The ids of the rows

PairwiseDistinctIds(rows) ==
    \A i, j \in 1..Len(rows) : i # j => rows[i].id # rows[j].id
IdsDistinct ==
    /\ PairwiseDistinctIds(conditions)
    /\ \A i \in 1..Len(conditions) : PairwiseDistinctIds(ListConditionsOf(conditions[i]))
\* after is before without one row, or with one row changed, or before
OneRowTouched(before, after) ==
    \/ after = before
    \/ /\ Len(after) = Len(before) - 1
       /\ \E i \in 1..Len(before) : after = RemoveAt(before, i)
    \/ /\ Len(after) = Len(before)
       /\ Cardinality({i \in 1..Len(before) : after[i] # before[i]}) = 1
\* a removal or an update of conditions, or of the item-conditions of one row
RemovesOrUpdates == Len(conditions') <= Len(conditions)
TouchesOneRow ==
    RemovesOrUpdates =>
        /\ OneRowTouched(conditions, conditions')
        /\ Len(conditions') = Len(conditions) =>
              \A i \in 1..Len(conditions) :
                  Len(ListConditionsOf(conditions'[i])) <= Len(ListConditionsOf(conditions[i]))
                  /\ Len(ListConditionsOf(conditions'[i])) > 0
                      => OneRowTouched(ListConditionsOf(conditions[i]),
                                       ListConditionsOf(conditions'[i]))

\* C29: after any sequence of adds, removals and updates, two adds in one
\* tick of the clock included, the conditions have pairwise distinct ids and
\* so have the item-conditions of one list condition, and a removal or an
\* update by id touches exactly the targeted row and keeps the others in order.
C29_AsClaimed == []IdsDistinct /\ [][TouchesOneRow]_vars

=============================================================================
